---- MODULE Spec2Model ----
(***************************************************************************)
(* useclassy core: the attribute rewriter (transformClassModifiers), the   *)
(* token extractor (extractClasses) and the attribute merger               *)
(* (mergeClassAttributes) of src/src/core.ts, modelled on texts that are   *)
(* sequences of one-character strings.  Every regular expression of the    *)
(* source is an operator that computes the match the JavaScript engine     *)
(* finds (leftmost, greedy, with the backtracking the pattern allows).     *)
(***************************************************************************)
EXTENDS Integers, Sequences, FiniteSets, TLC

VARIABLES
    isReact,                 \* options.language === 'react'
    code,                    \* the text handed to the last operation
    result,                  \* the text the last operation returned (the current text)
    generatedClassesSet,     \* Set passed to extractClasses (all) and transformClassModifiers
    modifierDerivedClassesSet, \* Set passed to extractClasses (modifier-derived)
    shape,                   \* how the text first drawn was composed
    pc,                      \* "start", then the last operation: "extracted",
                             \* "transformed", "merged", "remerged" (merged twice);
                             \* "plugin" while the plugin's hooks run
    allClassesSet,           \* index.ts: the global registry
    fileClassMap,            \* index.ts: Map file id -> the classes of the file
    transformCache,          \* index.ts: Map cache key -> transformed code
    isBuild,                 \* index.ts: config.command === 'build'
    initialScanComplete,     \* index.ts
    lastWrittenClassCount,   \* index.ts
    writeScheduled,          \* the last hook called writeOutputFileDebounced
    call,                    \* the last hook: which one, for which file, cache hit or not,
                             \* processCode threw or not
    hooksRun,                \* number of hooks run so far
    classesChanged,          \* transform: classesChanged of the last call
    registryBefore,          \* the content of allClassesSet when the last hook was entered
    lastTransformed,         \* file id -> the content last passed to transform since buildStart
    thrown,                  \* processCode has thrown in some transform call
    registryObject,          \* which Set object the variable allClassesSet refers to
                             \* (buildStart assigns a new Set()); its content is allClassesSet
    watcherObject,           \* the Set object the Blade change handler was given, -1: no handler
    detachedSet,             \* the content of the handler's Set when it is not the one
                             \* allClassesSet refers to any more
    bladeFiles,              \* Blade file -> its content on disk
    unlinked                 \* watcher version: the classes the last unlink handler found
                             \* in fileClassMap for its file

bladeVars == <<registryObject, watcherObject, detachedSet, bladeFiles>>

pluginVars == <<allClassesSet, fileClassMap, transformCache, isBuild, initialScanComplete,
                lastWrittenClassCount, writeScheduled, call, hooksRun,
                classesChanged, registryBefore, lastTransformed, thrown,
                registryObject, watcherObject, detachedSet, bladeFiles, unlinked>>

vars == <<isReact, shape, code, result, generatedClassesSet, modifierDerivedClassesSet, pc,
          allClassesSet, fileClassMap, transformCache, isBuild, initialScanComplete,
          lastWrittenClassCount, writeScheduled, call, hooksRun,
          classesChanged, registryBefore, lastTransformed, thrown,
          registryObject, watcherObject, detachedSet, bladeFiles, unlinked>>

(***************************************************************************)
(* Characters and strings                                                  *)
(***************************************************************************)

\* \w of a JavaScript regular expression: [A-Za-z0-9_]
WordChars ==
    {"a","b","c","d","e","f","g","h","i","j","k","l","m","n","o","p","q","r","s","t",
     "u","v","w","x","y","z",
     "A","B","C","D","E","F","G","H","I","J","K","L","M","N","O","P","Q","R","S","T",
     "U","V","W","X","Y","Z",
     "0","1","2","3","4","5","6","7","8","9","_"}

Letters == WordChars \ {"0","1","2","3","4","5","6","7","8","9","_"}

\* \s of a JavaScript regular expression, and what String.prototype.trim removes
\* (the ASCII part: space, tab, line feed, carriage return, form feed)
WhiteSpace == {" ", "\t", "\n", "\r", "\f"}

\* the line terminators that '.' of a regular expression does not match
LineTerminators == {"\n", "\r"}

\* the grave accent U+0060 that delimits a template literal (a string of the
\* module cannot hold the character itself)
BT == "BACKTICK"

S_class == <<"c","l","a","s","s">>
S_className == <<"c","l","a","s","s","N","a","m","e">>

\* s.startsWith(lit, i - 1): lit occurs in s at (1-based) index i
MatchesAt(s, i, lit) ==
    /\ i >= 1
    /\ i + Len(lit) - 1 <= Len(s)
    /\ \A k \in 1..Len(lit) : s[i + k - 1] = lit[k]

\* the least index j >= i with s[j] = c, or 0 when there is none
IndexFrom(s, i, c) ==
    IF \E j \in i..Len(s) : s[j] = c
    THEN CHOOSE j \in i..Len(s) : s[j] = c /\ \A k \in i..(j - 1) : s[k] # c
    ELSE 0

\* s.lastIndexOf(c) as a 1-based index, 0 when c does not occur
LastIndexOf(s, c) ==
    IF \E j \in 1..Len(s) : s[j] = c
    THEN CHOOSE j \in 1..Len(s) : s[j] = c /\ \A k \in (j + 1)..Len(s) : s[k] # c
    ELSE 0

\* the least index j >= i with s[j] not in the set cs, Len(s) + 1 when there is none
SkipWhile(s, i, cs) ==
    IF \E j \in i..Len(s) : s[j] \notin cs
    THEN CHOOSE j \in i..Len(s) : s[j] \notin cs /\ \A k \in i..(j - 1) : s[k] \in cs
    ELSE Len(s) + 1

\* String.prototype.trim
Trim(s) ==
    LET first == SkipWhile(s, 1, WhiteSpace)
    IN  IF first > Len(s) THEN <<>>
        ELSE LET last == CHOOSE j \in first..Len(s) :
                            s[j] \notin WhiteSpace /\ \A k \in (j + 1)..Len(s) : s[k] \in WhiteSpace
             IN  SubSeq(s, first, last)

\* Array.prototype.join(sep) of a sequence of strings
RECURSIVE Join(_, _)
Join(strs, sep) ==
    IF Len(strs) = 0 THEN <<>>
    ELSE IF Len(strs) = 1 THEN strs[1]
    ELSE strs[1] \o sep \o Join(Tail(strs), sep)

\* String.prototype.split(c) for a one-character separator
RECURSIVE Split(_, _)
Split(s, c) ==
    LET j == IndexFrom(s, 1, c)
    IN  IF j = 0 THEN <<s>>
        ELSE <<SubSeq(s, 1, j - 1)>> \o Split(SubSeq(s, j + 1, Len(s)), c)

StartsWith(s, c) == Len(s) >= 1 /\ s[1] = c

\* the least element of a non-empty set of indices: where a global pattern, which
\* is tried at each index in turn, matches next
Least(S) == CHOOSE j \in S : \A k \in S : j <= k
EndsWith(s, c) == Len(s) >= 1 /\ s[Len(s)] = c

\* (?:"[^"]*"|{[^}]*}) tried at index p: the index of the closing character, or 0
ValueEnd(s, p) ==
    IF p > Len(s) THEN 0
    ELSE IF s[p] = "\"" THEN IndexFrom(s, p + 1, "\"")
    ELSE IF s[p] = "{" THEN IndexFrom(s, p + 1, "}")
    ELSE 0

(***************************************************************************)
(* The modifier-attribute patterns and transformClassModifiers             *)
(* (core.ts 12, 17-18, 147-192)                                            *)
(***************************************************************************)

\* the class with white space let in, as [\w-:\s] would
ModifierChars_WithSpace == WordChars \cup {"-", ":", " "}

\* the character class [\w-:] of the modifier chain
ModifierChars == WordChars \cup {"-", ":"}

\* the attribute-name part of the modifier pattern tried at index i: the index of
\* the ':' that ends it, or 0.  CLASS_MODIFIER_REGEX has class: and
\* REACT_CLASS_MODIFIER_REGEX has (?:className|class):
ModifierNameEnd(s, i, react) ==
    IF react /\ MatchesAt(s, i, S_className \o <<":">>) THEN i + Len(S_className)
    ELSE IF MatchesAt(s, i, S_class \o <<":">>) THEN i + Len(S_class)
    ELSE 0

\* CLASS_MODIFIER_REGEX / REACT_CLASS_MODIFIER_REGEX tried at index i:
\* [matched, end (index of the closing quote), modifiers (group 1), classes (group 2)]
NoMatch == [matched |-> FALSE, end |-> 0, modifiers |-> <<>>, classes |-> <<>>]

ModifierMatchAt(s, i, react) ==
    LET colon == ModifierNameEnd(s, i, react)
        \* ([\w-:]+) is greedy, and what follows it, '=', is not in the class
        stop == SkipWhile(s, colon + 1, ModifierChars)
        close == IndexFrom(s, stop + 2, "\"")
    IN  IF /\ colon # 0
           /\ stop > colon + 1
           /\ MatchesAt(s, stop, <<"=", "\"">>)
           /\ close # 0
        THEN [matched |-> TRUE, end |-> close,
              modifiers |-> SubSeq(s, colon + 1, stop - 1),
              classes |-> SubSeq(s, stop + 2, close - 1)]
        ELSE NoMatch

\* modifierParts.forEach(part => { if (part) result.push(`${part}:${value}`) })
RECURSIVE PartTokens(_, _)
PartTokens(modifierParts, value) ==
    IF Len(modifierParts) = 0 THEN <<>>
    ELSE (IF Head(modifierParts) # <<>>
          THEN <<Head(modifierParts) \o <<":">> \o value>>
          ELSE <<>>)
         \o PartTokens(Tail(modifierParts), value)

\* the flatMap callback with the tokens of the parts pushed before the full chain
ValueTokens_PartsFirst(modifiers, value) ==
    LET modifierParts == Split(modifiers, ":")
    IN  (IF Len(modifierParts) > 1 THEN PartTokens(modifierParts, value) ELSE <<>>)
        \o <<modifiers \o <<":">> \o value>>

\* the flatMap callback (core.ts 163-175)
ValueTokens(modifiers, value) ==
    LET modifierParts == Split(modifiers, ":")
    IN  <<modifiers \o <<":">> \o value>>
        \o (IF Len(modifierParts) > 1 THEN PartTokens(modifierParts, value) ELSE <<>>)

\* classes.split(' ').map(trim).filter(Boolean).flatMap(...) over the segments
RECURSIVE ModifiedClasses(_, _)
ModifiedClasses(modifiers, segments) ==
    IF Len(segments) = 0 THEN <<>>
    ELSE (IF Trim(Head(segments)) # <<>>
          THEN ValueTokens(modifiers, Trim(Head(segments)))
          ELSE <<>>)
         \o ModifiedClasses(modifiers, Tail(segments))

modifiedClassesArr(m) == ModifiedClasses(m.modifiers, Split(m.classes, " "))

\* the test that rejects a single quote only when the token is wrapped in a pair
IsRegistered_Wrapped(cls) ==
    /\ cls # <<>>
    /\ ~EndsWith(cls, ":")
    /\ ~(StartsWith(cls, "'") /\ EndsWith(cls, "'"))

\* the test of core.ts 179-184 on a token of modifiedClassesArr
IsRegistered(cls) ==
    /\ cls # <<>>
    /\ ~EndsWith(cls, ":")
    /\ ~StartsWith(cls, "'")
    /\ ~EndsWith(cls, "'")

\* `if (!modifiers?.trim()) return match` (core.ts 154)
IsBlankModifier(m) == Trim(m.modifiers) = <<>>

\* the tokens one match adds to generatedClassesSet
MatchGenerated(m) ==
    IF IsBlankModifier(m) THEN {}
    ELSE LET arr == modifiedClassesArr(m)
         IN  {arr[k] : k \in {j \in 1..Len(arr) : IsRegistered(arr[j])}}

\* the replacement that keeps the attribute name the match was written with
MatchReplacement_KeepName(s, i, m, classAttrName) ==
    IF IsBlankModifier(m) THEN SubSeq(s, i, m.end)
    ELSE SubSeq(s, i, IndexFrom(s, i, ":") - 1)
           \o <<"=", "\"">> \o Join(modifiedClassesArr(m), <<" ">>) \o <<"\"">>

\* what the replace callback returns for one match (core.ts 153-191)
MatchReplacement(s, i, m, classAttrName) ==
    IF IsBlankModifier(m) THEN SubSeq(s, i, m.end)
    ELSE classAttrName \o <<"=", "\"">> \o Join(modifiedClassesArr(m), <<" ">>) \o <<"\"">>

\* code.replace(classModifierRegex, callback) from index i on: [text, generated]
RECURSIVE TransformFrom(_, _, _, _)
TransformFrom(s, i, react, classAttrName) ==
    LET at == {j \in i..Len(s) : ModifierMatchAt(s, j, react).matched}
    IN  IF at = {} THEN [text |-> SubSeq(s, i, Len(s)), generated |-> {}]
        ELSE LET j == Least(at)
                 m == ModifierMatchAt(s, j, react)
                 rest == TransformFrom(s, m.end + 1, react, classAttrName)
             IN  [text |-> SubSeq(s, i, j - 1) \o MatchReplacement(s, j, m, classAttrName)
                             \o rest.text,
                  generated |-> MatchGenerated(m) \cup rest.generated]

transformClassModifiers(s, react, classAttrName) == TransformFrom(s, 1, react, classAttrName)

(***************************************************************************)
(* extractClasses (core.ts 11, 16, 39-142)                                 *)
(***************************************************************************)

MAX_MODIFIER_DEPTH == 4

\* the scan of processClassString (core.ts 43-57) and of core.ts 107-139 from loop
\* index i (0-based, as in the source) with the current token starting at start:
\* the sequence of substrings cls the loop reaches, in order
RECURSIVE ScanTokens(_, _, _)
ScanTokens(str, i, start) ==
    LET len == Len(str)
    IN  IF i > len THEN <<>>
        ELSE IF i = len \/ str[i + 1] \in {" ", "\t", "\n"}
        THEN LET found == IF i > start THEN <<SubSeq(str, start + 1, i)>> ELSE <<>>
                 \* while (i < len && /\s/.test(str[i + 1])) i++
                 \* ends at the least i2 >= i with i2 >= len or str[i2 + 1] no white space
                 i2 == IF i >= len THEN i
                       ELSE SkipWhile(str, i + 2, WhiteSpace) - 2
             IN  found \o ScanTokens(str, i2 + 1, i2 + 1)
        ELSE ScanTokens(str, i + 1, start)

processClassString(classStr) ==
    LET toks == ScanTokens(classStr, 0, 0) IN {toks[k] : k \in 1..Len(toks)}

\* the lookahead that rejects any colon later in the tag, whatever lit is
NotFollowedBy_AnyColon(s, p, lit) ==
    ~\E j \in p..Len(s) : s[j] = ":" /\ \A k \in p..(j - 1) : s[k] # ">"

\* the negative lookahead (?![^>]*lit) at index p: lit does not occur at or after p
\* before the next '>'
NotFollowedBy(s, p, lit) ==
    ~\E j \in p..Len(s) : MatchesAt(s, j, lit) /\ \A k \in p..(j - 1) : s[k] # ">"

\* CLASS_REGEX (core.ts 11) and REACT_CLASS_REGEX (core.ts 16) tried at index i:
\* [matched, end, quoted (which alternative), val (group 1 or group 2)]
NoClassMatch == [matched |-> FALSE, end |-> 0, quoted |-> FALSE, val |-> <<>>]

ClassMatchAt(s, i, react) ==
    LET name == IF react THEN S_className ELSE S_class
        open == i + Len(name) + 1
        close == ValueEnd(s, open)
    IN  IF /\ MatchesAt(s, i, name \o <<"=">>)
           /\ close # 0
           /\ (react \/ s[open] = "\"")
           /\ NotFollowedBy(s, close + 1, IF react THEN <<":">> ELSE <<":">> \o S_class)
        THEN [matched |-> TRUE, end |-> close, quoted |-> s[open] = "\"",
              val |-> SubSeq(s, open + 1, close - 1)]
        ELSE NoClassMatch

\* literalContent.split('${')[0]
BeforeInterpolation(s) ==
    IF \E j \in 1..Len(s) : MatchesAt(s, j, <<"$", "{">>)
    THEN LET j == CHOOSE j \in 1..Len(s) :
                    /\ MatchesAt(s, j, <<"$", "{">>)
                    /\ \A k \in 1..(j - 1) : ~MatchesAt(s, k, <<"$", "{">>)
         IN  SubSeq(s, 1, j - 1)
    ELSE s

\* the test of a template literal by its first character only
BaseClasses_PrefixOnly(m) ==
    IF m.quoted THEN processClassString(m.val)
    ELSE LET trimmedJsx == Trim(m.val)
         IN  IF StartsWith(trimmedJsx, BT)
             THEN processClassString(
                      BeforeInterpolation(SubSeq(trimmedJsx, 2, Len(trimmedJsx))))
             ELSE {}

\* the tokens one classRegex match adds to allFileClasses (core.ts 76-93)
BaseClasses(m) ==
    IF m.quoted THEN processClassString(m.val)
    ELSE LET trimmedJsx == Trim(m.val)
         IN  IF StartsWith(trimmedJsx, BT) /\ EndsWith(trimmedJsx, BT)
             THEN processClassString(
                      BeforeInterpolation(SubSeq(trimmedJsx, 2, Len(trimmedJsx) - 1)))
             ELSE {}

\* the first while loop of extractClasses from index i on
RECURSIVE ExtractBaseFrom(_, _, _)
ExtractBaseFrom(s, i, react) ==
    LET at == {j \in i..Len(s) : ClassMatchAt(s, j, react).matched}
    IN  IF at = {} THEN {}
        ELSE LET m == ClassMatchAt(s, Least(at), react)
             IN  BaseClasses(m) \cup ExtractBaseFrom(s, m.end + 1, react)

\* the loop over every part of the chain, without the depth limit
RECURSIVE DepthTokens_Unbounded(_, _, _)
DepthTokens_Unbounded(modifierParts, j, cls) ==
    IF j > Len(modifierParts) THEN {}
    ELSE (IF modifierParts[j] # <<>> THEN {modifierParts[j] \o <<":">> \o cls} ELSE {})
         \cup DepthTokens_Unbounded(modifierParts, j + 1, cls)

\* the tokens the loop of core.ts 122-129 builds for the token cls
RECURSIVE DepthTokens(_, _, _)
DepthTokens(modifierParts, j, cls) ==
    IF j > Len(modifierParts) \/ j > MAX_MODIFIER_DEPTH THEN {}
    ELSE (IF modifierParts[j] # <<>> THEN {modifierParts[j] \o <<":">> \o cls} ELSE {})
         \cup DepthTokens(modifierParts, j + 1, cls)

\* the tokens one classModifierRegex match adds to both sets (core.ts 99-140)
ModifierClasses(m) ==
    IF m.modifiers # <<>> /\ m.classes # <<>>
    THEN LET toks == ScanTokens(m.classes, 0, 0)
         IN  UNION {{m.modifiers \o <<":">> \o toks[k]}
                    \cup (IF \E j \in 1..Len(m.modifiers) : m.modifiers[j] = ":"
                          THEN DepthTokens(Split(m.modifiers, ":"), 1, toks[k])
                          ELSE {}) : k \in 1..Len(toks)}
    ELSE {}

\* the second while loop of extractClasses from index i on
RECURSIVE ExtractModifiersFrom(_, _, _)
ExtractModifiersFrom(s, i, react) ==
    LET at == {j \in i..Len(s) : ModifierMatchAt(s, j, react).matched}
    IN  IF at = {} THEN {}
        ELSE LET m == ModifierMatchAt(s, Least(at), react)
             IN  ModifierClasses(m) \cup ExtractModifiersFrom(s, m.end + 1, react)

\* extractClasses adding every token to both sets
extractClasses_AllDerived(s, react) ==
    LET all == ExtractBaseFrom(s, 1, react) \cup ExtractModifiersFrom(s, 1, react)
    IN  [allFileClasses |-> all, modifierDerivedClasses |-> all]

\* extractClasses: the two sets as they are when it returns (both cleared first)
extractClasses(s, react) ==
    LET derived == ExtractModifiersFrom(s, 1, react)
    IN  [allFileClasses |-> ExtractBaseFrom(s, 1, react) \cup derived,
         modifierDerivedClasses |-> derived]

(***************************************************************************)
(* mergeClassAttributes (core.ts 194-307)                                  *)
(***************************************************************************)

\* the pattern without the alternative class: ${attrName}= only
AttrNameEnd_NoAlias(s, i, attrName) ==
    IF MatchesAt(s, i, attrName \o <<"=">>) THEN i + Len(attrName) ELSE 0

\* (?:${attrName}|class)= tried at index i: the index of the '=', or 0
AttrNameEnd(s, i, attrName) ==
    IF MatchesAt(s, i, attrName \o <<"=">>) THEN i + Len(attrName)
    ELSE IF MatchesAt(s, i, S_class \o <<"=">>) THEN i + Len(S_class)
    ELSE 0

\* attrFinderRegex tried at index i: the index of the last character matched, or 0
AttrEnd(s, i, attrName) ==
    LET eq == AttrNameEnd(s, i, attrName)
    IN  IF eq = 0 THEN 0 ELSE ValueEnd(s, eq + 1)

\* multipleClassRegex, the part (?:\s+(attr))* after an attribute ending at e:
\* the index of the last character of the run
RECURSIVE RunExtend(_, _, _)
RunExtend(s, e, attrName) ==
    LET p == SkipWhile(s, e + 1, WhiteSpace)
    IN  IF p = e + 1 THEN e
        ELSE LET e2 == AttrEnd(s, p, attrName)
             IN  IF e2 = 0 THEN e ELSE RunExtend(s, e2, attrName)

\* multipleClassRegex tried at index i: the index of the last character matched, or 0
getCompiledRegexes(s, i, attrName) ==
    LET e == AttrEnd(s, i, attrName)
    IN  IF e = 0 THEN 0 ELSE RunExtend(s, e, attrName)

\* the successive attrFinderRegex.exec(match) results from index i on: for each
\* attribute found, which alternative matched and its capture group
RECURSIVE AttrMatches(_, _, _)
AttrMatches(m, i, attrName) ==
    LET at == {j \in i..Len(m) : AttrEnd(m, j, attrName) # 0}
    IN  IF at = {} THEN <<>>
        ELSE LET j == Least(at)
                 e == AttrEnd(m, j, attrName)
                 eq == AttrNameEnd(m, j, attrName)
             IN  <<[quoted |-> m[eq + 1] = "\"", val |-> SubSeq(m, eq + 2, e - 1)]>>
                 \o AttrMatches(m, e + 1, attrName)

\* /^[a-zA-Z_][\w.]*\(.*\)$/.test(s)
IsFunctionCallShaped(s) ==
    LET k == IndexFrom(s, 1, "(")
    IN  /\ Len(s) >= 3
        /\ s[1] \in Letters \cup {"_"}
        /\ k >= 2
        /\ \A j \in 2..(k - 1) : s[j] \in WordChars \cup {"."}
        /\ s[Len(s)] = ")"
        /\ Len(s) > k
        /\ \A j \in (k + 1)..(Len(s) - 1) : s[j] \notin LineTerminators

\* the loop body that keeps the first function call it meets instead of the last
MergeStep_FirstCall(st, a) ==
    IF a.quoted /\ Trim(a.val) # <<>>
    THEN [st EXCEPT !.staticClasses = Append(@, Trim(a.val))]
    ELSE IF (~a.quoted) /\ a.val # <<>> /\ Trim(a.val) # <<>>
    THEN LET currentJsx == Trim(a.val)
         IN  IF StartsWith(currentJsx, BT) /\ EndsWith(currentJsx, BT)
             THEN LET literalContent == Trim(SubSeq(currentJsx, 2, Len(currentJsx) - 1))
                  IN  IF literalContent # <<>>
                      THEN [st EXCEPT !.staticClasses = Append(@, literalContent)]
                      ELSE st
             ELSE LET currentIsFunctionCall == IsFunctionCallShaped(currentJsx)
                  IN  IF st.jsxExpr = <<>> \/ (currentIsFunctionCall /\ ~st.isFunctionCall)
                      THEN [st EXCEPT !.jsxExpr = currentJsx,
                                      !.isFunctionCall = currentIsFunctionCall]
                      ELSE st
    ELSE st

\* one pass of the while loop of the replace callback (core.ts 228-262) over the
\* attribute a, from the loop state st = [staticClasses, jsxExpr, isFunctionCall];
\* jsxExpr = <<>> stands for null (an empty string is never stored)
MergeStep(st, a) ==
    IF a.quoted /\ Trim(a.val) # <<>>
    THEN [st EXCEPT !.staticClasses = Append(@, Trim(a.val))]
    ELSE IF (~a.quoted) /\ a.val # <<>> /\ Trim(a.val) # <<>>
    THEN LET currentJsx == Trim(a.val)
         IN  IF StartsWith(currentJsx, BT) /\ EndsWith(currentJsx, BT)
             THEN LET literalContent == Trim(SubSeq(currentJsx, 2, Len(currentJsx) - 1))
                  IN  IF literalContent # <<>>
                      THEN [st EXCEPT !.staticClasses = Append(@, literalContent)]
                      ELSE st
             ELSE LET currentIsFunctionCall == IsFunctionCallShaped(currentJsx)
                  IN  IF st.jsxExpr = <<>> \/ (currentIsFunctionCall /\ ~st.isFunctionCall)
                      THEN [st EXCEPT !.jsxExpr = currentJsx,
                                      !.isFunctionCall = currentIsFunctionCall]
                      ELSE IF currentIsFunctionCall /\ st.isFunctionCall
                      THEN [st EXCEPT !.jsxExpr = currentJsx]
                      ELSE st
    ELSE st

RECURSIVE MergeLoop(_, _)
MergeLoop(st, attrs) ==
    IF Len(attrs) = 0 THEN st
    ELSE MergeLoop(MergeStep(st, Head(attrs)), Tail(attrs))

\* the emission without the early return for an expression that stands alone:
\* a lone expression is wrapped in a template literal too
MergeEmit_NoEarlyReturn(st, attrName) ==
    LET combinedStatic == Trim(Join(st.staticClasses, <<" ">>))
        jsxExpr == st.jsxExpr
    IN  IF jsxExpr # <<>>
        THEN IF st.isFunctionCall /\ LastIndexOf(jsxExpr, ")") # 0
             THEN LET lastParenIndex == LastIndexOf(jsxExpr, ")")
                  IN  attrName \o <<"=", "{">>
                        \o SubSeq(jsxExpr, 1, lastParenIndex - 1)
                        \o <<",", " ", BT>> \o combinedStatic \o <<BT>>
                        \o SubSeq(jsxExpr, lastParenIndex, Len(jsxExpr))
                        \o <<"}">>
             ELSE attrName \o <<"=", "{", BT>> \o combinedStatic
                    \o <<" ", "$", "{">> \o jsxExpr \o <<"}", BT, "}">>
        ELSE IF combinedStatic # <<>>
        THEN attrName \o <<"=", "\"">> \o combinedStatic \o <<"\"">>
        ELSE <<>>

\* the emission that writes an empty attribute when nothing survives
MergeEmit_EmptyAttribute(st, attrName) ==
    LET combinedStatic == Trim(Join(st.staticClasses, <<" ">>))
        jsxExpr == st.jsxExpr
    IN  IF jsxExpr # <<>>
        THEN IF combinedStatic = <<>>
             THEN attrName \o <<"=", "{">> \o jsxExpr \o <<"}">>
             ELSE IF st.isFunctionCall /\ LastIndexOf(jsxExpr, ")") # 0
             THEN LET lastParenIndex == LastIndexOf(jsxExpr, ")")
                  IN  attrName \o <<"=", "{">>
                        \o SubSeq(jsxExpr, 1, lastParenIndex - 1)
                        \o <<",", " ", BT>> \o combinedStatic \o <<BT>>
                        \o SubSeq(jsxExpr, lastParenIndex, Len(jsxExpr))
                        \o <<"}">>
             ELSE attrName \o <<"=", "{", BT>> \o combinedStatic
                    \o <<" ", "$", "{">> \o jsxExpr \o <<"}", BT, "}">>
        ELSE attrName \o <<"=", "\"">> \o combinedStatic \o <<"\"">>

\* the emission with the expression written before the static text
MergeEmit_ExprFirst(st, attrName) ==
    LET combinedStatic == Trim(Join(st.staticClasses, <<" ">>))
        jsxExpr == st.jsxExpr
    IN  IF jsxExpr # <<>>
        THEN IF combinedStatic = <<>>
             THEN attrName \o <<"=", "{">> \o jsxExpr \o <<"}">>
             ELSE IF st.isFunctionCall /\ LastIndexOf(jsxExpr, ")") # 0
             THEN LET lastParenIndex == LastIndexOf(jsxExpr, ")")
                  IN  attrName \o <<"=", "{">>
                        \o SubSeq(jsxExpr, 1, lastParenIndex - 1)
                        \o <<",", " ", BT>> \o combinedStatic \o <<BT>>
                        \o SubSeq(jsxExpr, lastParenIndex, Len(jsxExpr))
                        \o <<"}">>
             ELSE attrName \o <<"=", "{", BT, "$", "{">> \o jsxExpr \o <<"}", " ">>
                    \o combinedStatic \o <<BT, "}">>
        ELSE IF combinedStatic # <<>>
        THEN attrName \o <<"=", "\"">> \o combinedStatic \o <<"\"">>
        ELSE <<>>

\* what the replace callback returns once the loop has ended (core.ts 264-305)
MergeEmit(st, attrName) ==
    LET finalAttrName == attrName
        combinedStatic == Trim(Join(st.staticClasses, <<" ">>))
        jsxExpr == st.jsxExpr
    IN  IF jsxExpr # <<>>
        THEN IF combinedStatic = <<>>
             THEN finalAttrName \o <<"=", "{">> \o jsxExpr \o <<"}">>
             ELSE IF st.isFunctionCall /\ LastIndexOf(jsxExpr, ")") # 0
             THEN LET lastParenIndex == LastIndexOf(jsxExpr, ")")
                  IN  finalAttrName \o <<"=", "{">>
                        \o SubSeq(jsxExpr, 1, lastParenIndex - 1)
                        \o <<",", " ", BT>> \o combinedStatic \o <<BT>>
                        \o SubSeq(jsxExpr, lastParenIndex, Len(jsxExpr))
                        \o <<"}">>
             ELSE finalAttrName \o <<"=", "{", BT>> \o combinedStatic
                    \o <<" ", "$", "{">> \o jsxExpr \o <<"}", BT, "}">>
        ELSE IF combinedStatic # <<>>
        THEN finalAttrName \o <<"=", "\"">> \o combinedStatic \o <<"\"">>
        ELSE <<>>

\* the replace callback: the replacement of one run
MergeRun(match, attrName) ==
    MergeEmit(MergeLoop([staticClasses |-> <<>>, jsxExpr |-> <<>>, isFunctionCall |-> FALSE],
                        AttrMatches(match, 1, attrName)),
              attrName)

\* code.replace(multipleClassRegex, callback) from index i on
RECURSIVE MergeFrom(_, _, _)
MergeFrom(s, i, attrName) ==
    LET at == {j \in i..Len(s) : getCompiledRegexes(s, j, attrName) # 0}
    IN  IF at = {} THEN SubSeq(s, i, Len(s))
        ELSE LET j == Least(at)
                 e == getCompiledRegexes(s, j, attrName)
             IN  SubSeq(s, i, j - 1) \o MergeRun(SubSeq(s, j, e), attrName)
                 \o MergeFrom(s, e + 1, attrName)

mergeClassAttributes(s, attrName) == MergeFrom(s, 1, attrName)

(***************************************************************************)
(* Source texts                                                            *)
(*                                                                         *)
(* A text is composed from a shape, kept in the variable shape so that a   *)
(* property can speak of the attribute that was written:                   *)
(*   "modifier": <p [lead] name:chain="value"> - one modifier attribute,   *)
(*               after an optional plain attribute of the same name;       *)
(*   "run":      <p attribute sep attribute ...> - plain class / className *)
(*               attributes, quoted or brace-valued.                       *)
(***************************************************************************)

MaxChain == 2     \* parts of a modifier chain
MaxTokens == 2    \* tokens of a modifier attribute's value
MaxAttrs == 2     \* attributes of a run

SeqsUpTo(S, lo, hi) == UNION {[1..k -> S] : k \in lo..hi}

\* parts of a chain: two names, and the empty part a stray colon leaves
PartChoices == {<<"s", "m">>, <<"h">>, <<>>}

\* chains that are not parts joined by colons: white space only
BlankChains == {<<" ">>}

\* value tokens: plain, ending with a colon, ending with a single quote
TokenChoices == {<<"a">>, <<"b", ":">>, <<"d", "'">>}

\* a value and the tokens it holds: the tokens joined by single spaces
SpacedValue(toks) == [value |-> Join(toks, <<" ">>), tokens |-> toks]

\* values written otherwise: a doubled space, padding, a token wrapped in single
\* quotes, a token that starts with one
OddValues ==
    { [value |-> <<"a", " ", " ", "b", ":">>, tokens |-> <<<<"a">>, <<"b", ":">>>>],
      [value |-> <<" ", "a", " ">>, tokens |-> <<<<"a">>>>],
      SpacedValue(<<<<"'", "c", "'">>>>),
      SpacedValue(<<<<"'", "e">>, <<"a">>>>) }

ValueChoices == {SpacedValue(t) : t \in SeqsUpTo(TokenChoices, 0, MaxTokens)} \cup OddValues

\* the plain attributes of a run: [name, quoted, val]
Quoted(name, val) == [name |-> name, quoted |-> TRUE, val |-> val]
Braced(name, val) == [name |-> name, quoted |-> FALSE, val |-> val]

AttrChoices ==
    { Quoted(S_class, <<"a">>), Quoted(S_className, <<"b">>),
      Quoted(S_class, <<" ", "c", " ">>), Quoted(S_class, <<>>),
      Quoted(S_className, <<" ">>),
      Braced(S_class, <<"x">>), Braced(S_className, <<" ", "y", " ">>),
      Braced(S_class, <<"f", "(", ")">>), Braced(S_className, <<"g", "(", "a", ")">>),
      Braced(S_class, <<"f", "(", "a">>),
      Braced(S_class, <<BT, "c", BT>>), Braced(S_className, <<BT, "\"", BT>>),
      Braced(S_class, <<"\"", "q", "\"">>) }

RunSeps == {<<" ">>, <<>>}

NoParts == <<>>

MakeShape(kind, name, chain, parts, v, lead, sep, attrs) ==
    [kind |-> kind, name |-> name, chain |-> chain, parts |-> parts, value |-> v.value,
     tokens |-> v.tokens, lead |-> lead, sep |-> sep, attrs |-> attrs]

ModifierShapes ==
    { MakeShape("modifier", n, Join(p, <<":">>), p, v, l, <<>>, <<>>) :
        n \in {S_class, S_className}, p \in SeqsUpTo(PartChoices, 1, MaxChain),
        v \in ValueChoices, l \in {FALSE} }
    \cup
    { MakeShape("modifier", n, Join(p, <<":">>), p, v, l, <<>>, <<>>) :
        n \in {S_class, S_className}, p \in SeqsUpTo(PartChoices, 1, 1),
        v \in ValueChoices, l \in {TRUE} }
    \cup
    { MakeShape("modifier", n, c, NoParts, SpacedValue(<<t>>), l, <<>>, <<>>) :
        n \in {S_class, S_className}, c \in BlankChains, t \in TokenChoices, l \in {FALSE} }

\* longer runs: static text with two expressions, calls and non-calls in each order
A_static == Quoted(S_class, <<"a">>)
A_x == Braced(S_class, <<"x">>)
A_y == Braced(S_class, <<" ", "y", " ">>)
A_f == Braced(S_class, <<"f", "(", ")">>)
A_g == Braced(S_class, <<"g", "(", "a", ")">>)

LongRuns ==
    { <<A_static, A_x, A_y>>, <<A_y, A_static, A_x>>, <<A_x, A_f, A_g>>,
      <<A_static, A_f, A_g>>, <<A_g, A_f, A_static>>, <<A_g, A_static, A_x>>,
      <<A_x, A_g, A_y, A_static>>, <<A_static, A_static, A_static>> }

RunShapes ==
    { MakeShape("run", <<>>, <<>>, NoParts, SpacedValue(<<>>), FALSE, sp, a) :
        a \in SeqsUpTo(AttrChoices, 1, MaxAttrs), sp \in RunSeps }
    \cup
    { MakeShape("run", <<>>, <<>>, NoParts, SpacedValue(<<>>), FALSE, <<" ">>, a) :
        a \in LongRuns }

\* runs in which no value holds anything: empty and white-space-only values,
\* quoted and in braces
B_empty == Quoted(S_class, <<>>)
B_space == Quoted(S_class, <<" ", " ">>)
B_braces == Braced(S_class, <<>>)
B_bracedSpace == Braced(S_class, <<" ">>)
B_bracedName == Braced(S_className, <<"\t">>)

BlankRuns ==
    { <<B_braces>>, <<B_bracedSpace>>, <<B_empty, B_braces>>, <<B_braces, B_space>>,
      <<B_bracedName, B_empty>>, <<B_empty, B_space, B_bracedSpace>>,
      <<B_braces, B_bracedSpace, B_braces>> }

BlankRunShapes ==
    { MakeShape("run", <<>>, <<>>, NoParts, SpacedValue(<<>>), FALSE, <<" ">>, a) :
        a \in BlankRuns }

Shapes == ModifierShapes \cup RunShapes \cup BlankRunShapes

RenderAttr(a) ==
    a.name \o <<"=">> \o (IF a.quoted THEN <<"\"">> ELSE <<"{">>) \o a.val
           \o (IF a.quoted THEN <<"\"">> ELSE <<"}">>)

RECURSIVE RenderRun(_, _)
RenderRun(attrs, sep) ==
    IF Len(attrs) = 0 THEN <<>>
    ELSE IF Len(attrs) = 1 THEN RenderAttr(attrs[1])
    ELSE RenderAttr(attrs[1]) \o sep \o RenderRun(Tail(attrs), sep)

\* what stands before and after the attributes
TagOpen == <<"<", "p", " ">>
TagClose == <<">">>

\* the plain attribute an element may carry before its modifier attribute
LeadAttr(sh) == IF sh.lead THEN sh.name \o <<"=", "\"", "f", "\"", " ">> ELSE <<>>

ModifierAttr(sh) ==
    sh.name \o <<":">> \o sh.chain \o <<"=", "\"">> \o sh.value \o <<"\"">>

Render(sh) ==
    IF sh.kind = "modifier"
    THEN TagOpen \o LeadAttr(sh) \o ModifierAttr(sh) \o TagClose
    ELSE TagOpen \o RenderRun(sh.attrs, sh.sep) \o TagClose

(***************************************************************************)
(* The state machine.  A text is drawn; the operations of the core are     *)
(* applied to it one at a time, each to the text the one before returned:  *)
(* in the order of processCode (index.ts): extractClasses,                 *)
(* transformClassModifiers, mergeClassAttributes, or starting with a later *)
(* one as the tests do, and with mergeClassAttributes run once more on its *)
(* own output.                                                             *)
(***************************************************************************)

\* classAttrName of the plugin (index.ts): className for React, class otherwise
classAttrName == IF isReact THEN S_className ELSE S_class

\* the plugin's state after construction (index.ts), no hook run yet
NoCall == [hook |-> "none", id |-> <<>>, hit |-> FALSE, threw |-> FALSE]

\* no Blade file, no Blade change handler, the first Set object
NoBlade ==
    /\ registryObject = 0
    /\ watcherObject = -1
    /\ detachedSet = {}
    /\ bladeFiles = <<>>

PluginConstructed ==
    /\ allClassesSet = {}
    /\ fileClassMap = <<>>
    /\ transformCache = <<>>
    /\ initialScanComplete = FALSE
    /\ lastWrittenClassCount = -1
    /\ writeScheduled = FALSE
    /\ call = NoCall
    /\ hooksRun = 0
    /\ classesChanged = FALSE
    /\ registryBefore = {}
    /\ lastTransformed = <<>>
    /\ thrown = FALSE
    /\ NoBlade
    /\ unlinked = {}

Init ==
    /\ isReact \in BOOLEAN
    /\ isBuild = FALSE
    /\ PluginConstructed
    /\ shape \in Shapes
    /\ code = Render(shape)
    /\ result = code
    /\ generatedClassesSet = {}
    /\ modifierDerivedClassesSet = {}
    /\ pc = "start"

\* extractClasses without the two clear() calls
ExtractClasses_NoClear ==
    /\ pc = "start"
    /\ LET e == extractClasses(result, isReact)
       IN  /\ generatedClassesSet' = generatedClassesSet \cup e.allFileClasses
           /\ modifierDerivedClassesSet' = modifierDerivedClassesSet \cup e.modifierDerivedClasses
    /\ code' = result
    /\ result' = result
    /\ pc' = "extracted"
    /\ UNCHANGED <<isReact, shape>>
    /\ UNCHANGED pluginVars

ExtractClasses ==
    /\ pc = "start"
    /\ LET e == extractClasses(result, isReact)
       IN  /\ generatedClassesSet' = e.allFileClasses
           /\ modifierDerivedClassesSet' = e.modifierDerivedClasses
    /\ code' = result
    /\ result' = result
    /\ pc' = "extracted"
    /\ UNCHANGED <<isReact, shape>>
    /\ UNCHANGED pluginVars

TransformClassModifiers ==
    /\ pc \in {"start", "extracted"}
    /\ LET t == transformClassModifiers(result, isReact, classAttrName)
       IN  /\ result' = t.text
           /\ generatedClassesSet' = generatedClassesSet \cup t.generated
    /\ code' = result
    /\ pc' = "transformed"
    /\ UNCHANGED <<isReact, shape, modifierDerivedClassesSet>>
    /\ UNCHANGED pluginVars

MergeClassAttributes ==
    /\ pc \in {"start", "transformed", "merged"}
    /\ code' = result
    /\ result' = mergeClassAttributes(result, classAttrName)
    /\ pc' = IF pc = "merged" THEN "remerged" ELSE "merged"
    /\ UNCHANGED <<isReact, shape, generatedClassesSet, modifierDerivedClassesSet>>
    /\ UNCHANGED pluginVars

Next ==
    \/ ExtractClasses
    \/ TransformClassModifiers
    \/ MergeClassAttributes

Spec == Init /\ [][Next]_vars

(***************************************************************************)
(* extractClasses on its own.  The texts drawn here are made for the       *)
(* extractor: one element <p ...> holding                                  *)
(*   "modifier": name:chain="value" - chains of up to MaxParts parts,      *)
(*               values over letters and white space;                      *)
(*   "plain":    name="value" follow - a plain attribute and what follows  *)
(*               it inside the tag;                                        *)
(*   "braced":   name={expr} - an expression-valued attribute.             *)
(* extractClasses is exported and is handed the caller's two sets, which   *)
(* may hold the tokens of an earlier call.                                 *)
(***************************************************************************)

MaxValueLen == 3   \* characters of a value over WsAlphabet
MaxParts == 6      \* parts of the longest chain drawn

WsAlphabet == {"a", " ", "\t", "\n", "\r"}

WsValues == SeqsUpTo(WsAlphabet, 0, MaxValueLen)

\* values of a few tokens separated by single spaces; d:t is a token with a colon
\* written by hand
SmallValues ==
    { <<"a">>, <<"a", " ", "b">>, <<"d", ":", "t", " ", "a">>, <<"h", ":", "b">>, <<>> }

PartNames == <<"s", "m", "l", "x", "h", "f", "g", "d", "k">>

\* the chain of the first n part names, and one whose fifth part repeats its first
ChainOf(n) == [k \in 1..n |-> <<PartNames[k]>>]
RepeatingChain == <<<<"s">>, <<"m">>, <<"l">>, <<"x">>, <<"s">>>>

ChainChoices == {ChainOf(n) : n \in 1..MaxParts} \cup {RepeatingChain}

\* what may follow a plain attribute inside its tag
S_id == <<" ", "i", "d", "=", "\"", "x", "\"">>
S_modifierAfter == <<" ">> \o S_class \o <<":", "h", "=", "\"", "b", "\"">>
S_reactModifierAfter == <<" ">> \o S_className \o <<":", "h", "=", "\"", "b", "\"">>
S_boundAfter == <<" ", ":">> \o S_class \o <<"=", "\"", "x", "\"">>
S_styleAfter == <<" ", "s", "t", "y", "l", "e", "=", "\"", "c", ":", "d", "\"">>

FollowChoices == {<<>>, S_id, S_modifierAfter, S_reactModifierAfter, S_boundAfter, S_styleAfter}

\* brace expressions: [expr, static, inner] - a template literal is static text,
\* then (hasInner) an interpolation of the expression inner, then rest
Template(static, hasInner, inner, rest) ==
    [expr |-> <<BT>> \o static
                \o (IF hasInner THEN <<"$", "{">> \o inner \o <<"}">> ELSE <<>>)
                \o rest \o <<BT>>,
     template |-> TRUE, static |-> static, hasInner |-> hasInner, inner |-> inner]

Expression(e) ==
    [expr |-> e, template |-> FALSE, static |-> <<>>, hasInner |-> FALSE, inner |-> <<>>]

ExprChoices ==
    { Template(<<"a", " ", "b">>, FALSE, <<>>, <<>>),
      Template(<<"a", " ">>, TRUE, <<"x">>, <<>>),
      Template(<<"a", " ", "b", " ">>, TRUE, <<"x">>, <<" ", "c">>),
      Template(<<"a", " ">>, TRUE, <<"x", "?", "\"", "b", "\"", ":", "\"", "\"">>, <<>>),
      Template(<<"a", " ">>, TRUE, <<BT, "b", BT>>, <<>>),
      Template(<<"a", " ">>, TRUE, <<"x">>, <<"$", "{", "y", "}">>),
      Template(<<>>, TRUE, <<"x">>, <<" ", "a">>),
      Expression(<<"x">>), Expression(<<"f", "(", "a", ")">>),
      Expression(<<"\"", "q", "\"">>), Expression(<<"a", " ", "b">>) }

MakeText(kind, name, parts, value, follow, e) ==
    [kind |-> kind, name |-> name, chain |-> Join(parts, <<":">>), parts |-> parts,
     value |-> value, follow |-> follow, expr |-> e.expr, template |-> e.template,
     static |-> e.static, hasInner |-> e.hasInner, inner |-> e.inner]

ExtractShapes ==
    { MakeText("modifier", n, p, v, <<>>, Expression(<<>>)) :
        n \in {S_class, S_className}, p \in ChainChoices, v \in SmallValues }
    \cup
    { MakeText("modifier", n, p, v, <<>>, Expression(<<>>)) :
        n \in {S_class}, p \in {ChainOf(1), ChainOf(2)}, v \in WsValues }
    \cup
    { MakeText("plain", n, NoParts, v, <<>>, Expression(<<>>)) :
        n \in {S_class, S_className}, v \in WsValues }
    \cup
    { MakeText("plain", n, NoParts, v, f, Expression(<<>>)) :
        n \in {S_class, S_className}, v \in SmallValues, f \in FollowChoices }
    \cup
    { MakeText("braced", n, NoParts, <<>>, <<>>, e) :
        n \in {S_class, S_className}, e \in ExprChoices }

RenderText(sh) ==
    TagOpen
    \o (CASE sh.kind = "modifier" ->
               sh.name \o <<":">> \o sh.chain \o <<"=", "\"">> \o sh.value \o <<"\"">>
           [] sh.kind = "plain" ->
               sh.name \o <<"=", "\"">> \o sh.value \o <<"\"">> \o sh.follow
           [] sh.kind = "braced" ->
               sh.name \o <<"=", "{">> \o sh.expr \o <<"}">>)
    \o TagClose

\* what the caller's sets may hold when extractClasses is called: nothing, or the
\* tokens of an earlier text (z and h:z occur in no text drawn here)
PriorSets ==
    { [all |-> {}, derived |-> {}],
      [all |-> {<<"z">>, <<"a">>, <<"h", ":", "z">>, <<"s", ":", "a">>},
       derived |-> {<<"h", ":", "z">>, <<"s", ":", "a">>}] }

InitExtract ==
    /\ isReact \in BOOLEAN
    /\ isBuild = FALSE
    /\ PluginConstructed
    /\ shape \in ExtractShapes
    /\ code = RenderText(shape)
    /\ result = code
    /\ \E prior \in PriorSets :
          /\ generatedClassesSet = prior.all
          /\ modifierDerivedClassesSet = prior.derived
    /\ pc = "start"

NextExtract == ExtractClasses

SpecExtract == InitExtract /\ [][NextExtract]_vars

(***************************************************************************)
(* The plugin (index.ts).  Its hooks are called by the bundler one at a    *)
(* time: buildStart, and transform(code, id) for the files of the project, *)
(* any file any number of times with any of its contents.  The ids drawn   *)
(* are ids shouldProcessFile accepts (for the others transform returns     *)
(* null before it touches any state).  language is vue or react, so the    *)
(* Blade scan of buildStart does not run.                                  *)
(***************************************************************************)

\* number of hook calls of one run
MaxHooks == 3

\* the characters of code 32 .. 126, in the order of their codes
Ascii ==
    << " ", "!", "\"", "#", "$", "%", "&", "'", "(", ")", "*", "+", ",", "-", ".", "/",
       "0", "1", "2", "3", "4", "5", "6", "7", "8", "9", ":", ";", "<", "=", ">", "?",
       "@", "A", "B", "C", "D", "E", "F", "G", "H", "I", "J", "K", "L", "M", "N", "O",
       "P", "Q", "R", "S", "T", "U", "V", "W", "X", "Y", "Z", "[", "\\", "]", "^", "_",
       BT, "a", "b", "c", "d", "e", "f", "g", "h", "i", "j", "k", "l", "m", "n", "o",
       "p", "q", "r", "s", "t", "u", "v", "w", "x", "y", "z", "{", "|", "}", "~" >>

\* char.charCodeAt(0)
charCodeAt(c) ==
    IF c = "\t" THEN 9
    ELSE IF c = "\n" THEN 10
    ELSE IF c = "\f" THEN 12
    ELSE IF c = "\r" THEN 13
    ELSE 31 + (CHOOSE k \in 1..Len(Ascii) : Ascii[k] = c)

\* string.split('').reduce((acc, char) => acc + char.charCodeAt(0), 0)
RECURSIVE hashFunction(_)
hashFunction(string) ==
    IF string = <<>> THEN 0
    ELSE hashFunction(SubSeq(string, 1, Len(string) - 1)) + charCodeAt(string[Len(string)])

\* hashFunction(id + code).toString(): the key is kept as the number
generateCacheKey(id, c) == hashFunction(id \o c)

\* Map.has, Map.get, Map.set on a function whose domain is the set of keys
MapHas(m, k) == k \in DOMAIN m
MapSet(m, k, v) == [x \in DOMAIN m \cup {k} |-> IF x = k THEN v ELSE m[x]]

\* the files of the project
FileIds == { <<"a", ".", "v", "u", "e">>, <<"b", ".", "v", "u", "e">> }

\* one element <p ...> with the attributes given
Element(attrs) == <<"<", "p">> \o attrs \o <<">">>
PlainAttr(val) == <<" ">> \o S_class \o <<"=", "\"">> \o val \o <<"\"">>
ModAttr(part, val) == <<" ">> \o S_class \o <<":">> \o part \o <<"=", "\"">> \o val \o <<"\"">>

\* the contents a file can have:
\*   <p class="f" class:h="a">      a static class and a modifier attribute
\*   <p class="d:t">                a hand-written variant in a static attribute
\*   <p class:h="a b">, <p class:h="b a">   the same characters in another order
\*   <p class:h="d'">               a value whose token ends with a single quote
\*   <p class:s="a">                another modifier
T_mixed == Element(PlainAttr(<<"f">>) \o ModAttr(<<"h">>, <<"a">>))
T_static == Element(PlainAttr(<<"d", ":", "t">>))
T_ab == Element(ModAttr(<<"h">>, <<"a", " ", "b">>))
T_ba == Element(ModAttr(<<"h">>, <<"b", " ", "a">>))
T_quote == Element(ModAttr(<<"h">>, <<"d", "'">>))
T_other == Element(ModAttr(<<"s">>, <<"a">>))

PluginTexts == {T_mixed, T_static, T_ab, T_ba, T_quote, T_other}

\* regenerateAllClasses that clears the registry and does not refill it
regenerateAllClasses_ClearOnly(m, oldSize) ==
    [allClassesSet |-> {}, changed |-> oldSize # 0]

\* regenerateAllClasses() after fileClassMap became m: the registry is cleared and
\* refilled from every tracked file; true when the size differs from oldSize
regenerateAllClasses(m, oldSize) ==
    LET all == UNION {m[f] : f \in DOMAIN m}
    IN  [allClassesSet |-> all, changed |-> oldSize # Cardinality(all)]

\* the three calls of processCode into the core, for one text and one language:
\* extractClasses, transformClassModifiers on the same text, mergeClassAttributes
\* on what transformClassModifiers returned
CorePass(c, react) ==
    LET name == IF react THEN S_className ELSE S_class
        e == extractClasses(c, react)
        t == transformClassModifiers(c, react, name)
    IN  [allFileClasses |-> e.allFileClasses,
         modifierDerivedClasses |-> e.modifierDerivedClasses,
         generated |-> t.generated,
         finalTransformedCode |-> mergeClassAttributes(t.text, name)]

\* CorePass of every content in both languages, and the cache key of every
\* file with every content, computed once
CorePassOf == [react \in BOOLEAN |-> [c \in PluginTexts |-> CorePass(c, react)]]
CacheKeyOf == [id \in FileIds |-> [c \in PluginTexts |-> generateCacheKey(id, c)]]

\* processCode that reports a change whenever the file has modifier-derived classes
ProcessCodeResult_AlwaysChanged(p, currentGlobalClasses) ==
    [transformedCode |-> p.finalTransformedCode,
     classesChanged |-> p.modifierDerivedClasses # {},
     currentGlobalClasses |-> currentGlobalClasses \cup p.modifierDerivedClasses,
     modifierDerivedClassesSet |-> p.modifierDerivedClasses,
     allFileClasses |-> p.allFileClasses,
     fileSpecificClasses |-> p.allFileClasses \cup p.generated]

\* processCode, the part after the calls into the core (p): whether a
\* modifier-derived class was new to the registry, the registry with them added,
\* and the classes of the file
ProcessCodeResult(p, currentGlobalClasses) ==
    [transformedCode |-> p.finalTransformedCode,
     classesChanged |-> ~(p.modifierDerivedClasses \subseteq currentGlobalClasses),
     currentGlobalClasses |-> currentGlobalClasses \cup p.modifierDerivedClasses,
     modifierDerivedClassesSet |-> p.modifierDerivedClasses,
     allFileClasses |-> p.allFileClasses,
     fileSpecificClasses |-> p.allFileClasses \cup p.generated]

\* processCode(code, currentGlobalClasses)
processCode(c, currentGlobalClasses) ==
    ProcessCodeResult(CorePassOf[isReact][c], currentGlobalClasses)

InitPlugin ==
    /\ isReact \in BOOLEAN
    /\ isBuild \in BOOLEAN
    /\ PluginConstructed
    /\ shape = [kind |-> "plugin"]
    /\ code = <<>>
    /\ result = <<>>
    /\ generatedClassesSet = {}
    /\ modifierDerivedClassesSet = {}
    /\ pc = "plugin"

\* what transform returns when it returns null
Null == <<"null">>

\* the calls of processCode into the core, any of which can throw
ThrowStages == {"extractClasses", "transformClassModifiers", "mergeClassAttributes"}

\* transform(code, id), served from the cache under cacheKey
TransformCached(id, cacheKey) ==
    /\ MapHas(transformCache, cacheKey)
    /\ result' = transformCache[cacheKey]
    /\ writeScheduled' = FALSE
    /\ classesChanged' = FALSE
    /\ call' = [hook |-> "transform", id |-> id, hit |-> TRUE, threw |-> FALSE]
    /\ UNCHANGED <<generatedClassesSet, modifierDerivedClassesSet, allClassesSet,
                   fileClassMap, transformCache, initialScanComplete, thrown>>

\* transform that schedules the write on processCode's classesChanged alone
TransformProcessed_DirectOnly(id, cacheKey, r, map) ==
    /\ ~MapHas(transformCache, cacheKey)
    /\ generatedClassesSet' = r.fileSpecificClasses
    /\ modifierDerivedClassesSet' = r.modifierDerivedClassesSet
    /\ fileClassMap' = map
    /\ transformCache' = MapSet(transformCache, cacheKey, r.transformedCode)
    /\ allClassesSet' = regenerateAllClasses(map, Cardinality(r.currentGlobalClasses)).allClassesSet
    /\ classesChanged' = r.classesChanged
    /\ writeScheduled' = (~isBuild /\ r.classesChanged)
    /\ result' = r.transformedCode
    /\ initialScanComplete' = TRUE
    /\ call' = [hook |-> "transform", id |-> id, hit |-> FALSE, threw |-> FALSE]
    /\ UNCHANGED thrown

\* transform(code, id), the file is processed and r is what processCode returned
TransformProcessed(id, cacheKey, r, map) ==
    /\ ~MapHas(transformCache, cacheKey)
    /\ generatedClassesSet' = r.fileSpecificClasses
    /\ modifierDerivedClassesSet' = r.modifierDerivedClassesSet
    /\ fileClassMap' = map
    /\ transformCache' = MapSet(transformCache, cacheKey, r.transformedCode)
    /\ LET g == regenerateAllClasses(map, Cardinality(r.currentGlobalClasses))
       IN  /\ allClassesSet' = g.allClassesSet
           /\ classesChanged' = (r.classesChanged \/ g.changed)
           /\ writeScheduled' = (~isBuild /\ (r.classesChanged \/ g.changed))
    /\ result' = r.transformedCode
    /\ initialScanComplete' = TRUE
    /\ call' = [hook |-> "transform", id |-> id, hit |-> FALSE, threw |-> FALSE]
    /\ UNCHANGED thrown

\* transform whose catch clause records the file with no classes and caches null
TransformThrows_Records(id, cacheKey, r, stage) ==
    /\ ~MapHas(transformCache, cacheKey)
    /\ generatedClassesSet' = {}
    /\ modifierDerivedClassesSet' = {}
    /\ allClassesSet' = allClassesSet
    /\ result' = Null
    /\ writeScheduled' = FALSE
    /\ classesChanged' = FALSE
    /\ call' = [hook |-> "transform", id |-> id, hit |-> FALSE, threw |-> TRUE]
    /\ thrown' = TRUE
    /\ fileClassMap' = MapSet(fileClassMap, id, {})
    /\ transformCache' = MapSet(transformCache, cacheKey, Null)
    /\ UNCHANGED initialScanComplete

\* transform(code, id), processCode throws when it enters the core call stage;
\* r is what processCode would have returned.  The two sets were cleared, and the
\* calls before stage have run; the catch clause returns null.
TransformThrows(id, cacheKey, r, stage) ==
    /\ ~MapHas(transformCache, cacheKey)
    /\ generatedClassesSet' =
          IF stage = "extractClasses" THEN {}
          ELSE IF stage = "transformClassModifiers" THEN r.allFileClasses
          ELSE r.fileSpecificClasses
    /\ modifierDerivedClassesSet' =
          IF stage = "extractClasses" THEN {} ELSE r.modifierDerivedClassesSet
    /\ allClassesSet' =
          IF stage = "extractClasses" THEN allClassesSet ELSE r.currentGlobalClasses
    /\ result' = Null
    /\ writeScheduled' = FALSE
    /\ classesChanged' = FALSE
    /\ call' = [hook |-> "transform", id |-> id, hit |-> FALSE, threw |-> TRUE]
    /\ thrown' = TRUE
    /\ UNCHANGED <<fileClassMap, transformCache, initialScanComplete>>

\* what transform does with the key and with what processCode returned
TransformWith(id, cacheKey, r) ==
    \/ TransformCached(id, cacheKey)
    \/ TransformProcessed(id, cacheKey, r, MapSet(fileClassMap, id, r.fileSpecificClasses))
    \/ \E stage \in ThrowStages : TransformThrows(id, cacheKey, r, stage)

\* transform(code, id) for a file of ids with a content of texts
TransformOf(ids, texts) ==
    /\ pc = "plugin"
    /\ hooksRun < MaxHooks
    /\ \E id \in ids, c \in texts :
          /\ code' = c
          /\ lastTransformed' = MapSet(lastTransformed, id, c)
          /\ TransformWith(id, CacheKeyOf[id][c], processCode(c, allClassesSet))
    /\ registryBefore' = allClassesSet
    /\ hooksRun' = hooksRun + 1
    /\ UNCHANGED <<isReact, shape, pc, isBuild, lastWrittenClassCount>>
    /\ UNCHANGED bladeVars
    /\ UNCHANGED unlinked

Transform == TransformOf(FileIds, PluginTexts)

BuildStart ==
    /\ pc = "plugin"
    /\ hooksRun < MaxHooks
    /\ allClassesSet' = {}
    /\ transformCache' = <<>>
    /\ fileClassMap' = <<>>
    /\ lastWrittenClassCount' = -1
    /\ initialScanComplete' = FALSE
    /\ writeScheduled' = FALSE
    /\ classesChanged' = FALSE
    /\ call' = [hook |-> "buildStart", id |-> <<>>, hit |-> FALSE, threw |-> FALSE]
    /\ registryBefore' = allClassesSet
    /\ lastTransformed' = <<>>
    /\ hooksRun' = hooksRun + 1
    /\ UNCHANGED <<isReact, shape, pc, isBuild, code, result, thrown,
                   generatedClassesSet, modifierDerivedClassesSet>>
    /\ UNCHANGED bladeVars
    /\ UNCHANGED unlinked

NextPlugin ==
    \/ Transform
    \/ BuildStart

SpecPlugin == InitPlugin /\ [][NextPlugin]_vars

(***************************************************************************)
(* processCode on its own, run again and again on one text with the        *)
(* registry the run before left (as the Blade scan and the Blade change    *)
(* handler call it, with the plugin's registry).  The registry it starts   *)
(* with holds any of the tokens other files can have contributed.          *)
(***************************************************************************)

\* number of processCode runs on the text
MaxRuns == 3

\* tokens the registry can hold before the first run
PriorTokens == { <<"h", ":", "a">>, <<"s", ":", "a">>, <<"f">>, <<"h", ":", "z">> }

InitProcess ==
    /\ isReact \in BOOLEAN
    /\ isBuild \in BOOLEAN
    /\ fileClassMap = <<>>
    /\ transformCache = <<>>
    /\ initialScanComplete = FALSE
    /\ lastWrittenClassCount = -1
    /\ writeScheduled = FALSE
    /\ call = NoCall
    /\ hooksRun = 0
    /\ classesChanged = FALSE
    /\ registryBefore = {}
    /\ lastTransformed = <<>>
    /\ thrown = FALSE
    /\ NoBlade
    /\ unlinked = {}
    /\ shape = [kind |-> "processCode"]
    /\ code \in PluginTexts
    /\ result = code
    /\ generatedClassesSet = {}
    /\ modifierDerivedClassesSet = {}
    /\ allClassesSet \in SUBSET PriorTokens
    /\ pc = "processCode"

\* what a run of processCode leaves, r being what it returns
ProcessCodeWith(r) ==
    /\ generatedClassesSet' = r.fileSpecificClasses
    /\ modifierDerivedClassesSet' = r.modifierDerivedClassesSet
    /\ allClassesSet' = r.currentGlobalClasses
    /\ classesChanged' = r.classesChanged
    /\ result' = r.transformedCode

ProcessCode ==
    /\ pc = "processCode"
    /\ hooksRun < MaxRuns
    /\ ProcessCodeWith(processCode(code, allClassesSet))
    /\ registryBefore' = allClassesSet
    /\ call' = [hook |-> "processCode", id |-> <<>>, hit |-> FALSE, threw |-> FALSE]
    /\ hooksRun' = hooksRun + 1
    /\ UNCHANGED <<isReact, shape, pc, code, isBuild, fileClassMap, transformCache,
                   initialScanComplete, lastWrittenClassCount, writeScheduled,
                   lastTransformed, thrown>>
    /\ UNCHANGED bladeVars
    /\ UNCHANGED unlinked

NextProcess == ProcessCode

SpecProcess == InitProcess /\ [][NextProcess]_vars

(***************************************************************************)
(* The plugin with language blade (index.ts, blade.ts).  Blade files are   *)
(* not part of the module graph: configureServer and buildStart scan them  *)
(* (scanBladeFiles), and configureServer installs a watcher whose change   *)
(* handler processes a changed Blade file.  scanBladeFiles and the handler *)
(* are given the Set object allClassesSet refers to at the time of the     *)
(* call, and the closures regenerateAllClasses and processCode of the      *)
(* plugin; regenerateAllClasses works on the Set allClassesSet refers to   *)
(* when it runs.  transform is called for the files of the module graph.   *)
(***************************************************************************)

\* the Blade files of the project, in the order findBladeFiles lists them
BladeX == <<"x", ".", "b", "l", "a", "d", "e", ".", "p", "h", "p">>
BladeY == <<"y", ".", "b", "l", "a", "d", "e", ".", "p", "h", "p">>
BladeOrder == <<BladeX, BladeY>>
BladeIds == {BladeX, BladeY}

\* the contents a Blade file can have
BladeTexts == {T_mixed, T_other, T_static}

\* the files of the module graph and their contents, with language blade
GraphIds == { <<"a", ".", "v", "u", "e">> }
GraphTexts == {T_mixed, T_other}

\* extractClasses(content, new Set(), modifierClasses, CLASS_REGEX, CLASS_MODIFIER_REGEX)
ModifierClassesOf(content) == CorePassOf[FALSE][content].modifierDerivedClasses

\* fileClassMap after a Blade file was processed, r being what processCode
\* returned: the file is recorded if (result.classesChanged)
BladeRecorded(r, file, content, map) ==
    IF r.classesChanged THEN MapSet(map, file, ModifierClassesOf(content)) ELSE map

\* the Set given to processCode after a Blade file was processed, when it is the
\* Set regenerateAllClasses works on: rebuilt if the file was recorded
BladeRegistry(r, map) ==
    IF r.classesChanged THEN regenerateAllClasses(map, 0).allClassesSet
    ELSE r.currentGlobalClasses

\* scanBladeFiles, one file: st holds the registry, fileClassMap and the result
\* of the last processCode
ScanFileWith(r, st, file) ==
    [registry |-> BladeRegistry(r, BladeRecorded(r, file, bladeFiles[file], st.map)),
     map |-> BladeRecorded(r, file, bladeFiles[file], st.map),
     last |-> r]

ScanFile(st, file) == ScanFileWith(processCode(bladeFiles[file], st.registry), st, file)

\* scanBladeFiles: for (const file of bladeFiles), from file number k on
RECURSIVE ScanFrom(_, _)
ScanFrom(st, k) ==
    IF k > Len(BladeOrder) THEN st ELSE ScanFrom(ScanFile(st, BladeOrder[k]), k + 1)

scanBladeFiles(registry, map) ==
    ScanFrom([registry |-> registry, map |-> map, last |-> processCode(T_static, {})], 1)

\* what a scan leaves in the plugin
ScannedInto(st) ==
    /\ allClassesSet' = st.registry
    /\ fileClassMap' = st.map
    /\ generatedClassesSet' = st.last.fileSpecificClasses
    /\ modifierDerivedClassesSet' = st.last.modifierDerivedClassesSet

InitBlade ==
    /\ isReact = FALSE
    /\ isBuild \in BOOLEAN
    /\ allClassesSet = {}
    /\ fileClassMap = <<>>
    /\ transformCache = <<>>
    /\ initialScanComplete = FALSE
    /\ lastWrittenClassCount = -1
    /\ writeScheduled = FALSE
    /\ call = NoCall
    /\ hooksRun = 0
    /\ classesChanged = FALSE
    /\ registryBefore = {}
    /\ lastTransformed = <<>>
    /\ thrown = FALSE
    /\ registryObject = 0
    /\ watcherObject = -1
    /\ detachedSet = {}
    /\ bladeFiles \in [BladeIds -> BladeTexts]
    /\ unlinked = {}
    /\ shape = [kind |-> "blade"]
    /\ code = <<>>
    /\ result = <<>>
    /\ generatedClassesSet = {}
    /\ modifierDerivedClassesSet = {}
    /\ pc = "plugin"

\* configureServer (dev server only, once): scanBladeFiles, then
\* setupBladeFileWatching with the Set allClassesSet refers to now
ConfigureServer ==
    /\ pc = "plugin"
    /\ hooksRun < MaxHooks
    /\ ~isBuild
    /\ watcherObject = -1
    /\ ScannedInto(scanBladeFiles(allClassesSet, fileClassMap))
    /\ watcherObject' = registryObject
    /\ writeScheduled' = FALSE
    /\ classesChanged' = FALSE
    /\ call' = [hook |-> "configureServer", id |-> <<>>, hit |-> FALSE, threw |-> FALSE]
    /\ registryBefore' = allClassesSet
    /\ hooksRun' = hooksRun + 1
    /\ UNCHANGED <<isReact, shape, pc, isBuild, code, result, thrown, transformCache,
                   initialScanComplete, lastWrittenClassCount, lastTransformed,
                   registryObject, detachedSet, bladeFiles, unlinked>>

\* buildStart with language blade: allClassesSet = new Set() (the Set the change
\* handler holds keeps its content), the maps are cleared, scanBladeFiles
BuildStartBlade ==
    /\ pc = "plugin"
    /\ hooksRun < MaxHooks
    /\ registryObject' = registryObject + 1
    /\ detachedSet' = IF watcherObject = registryObject THEN allClassesSet ELSE detachedSet
    /\ ScannedInto(scanBladeFiles({}, <<>>))
    /\ transformCache' = <<>>
    /\ lastWrittenClassCount' = -1
    /\ initialScanComplete' = FALSE
    /\ writeScheduled' = FALSE
    /\ classesChanged' = FALSE
    /\ call' = [hook |-> "buildStart", id |-> <<>>, hit |-> FALSE, threw |-> FALSE]
    /\ registryBefore' = allClassesSet
    /\ lastTransformed' = <<>>
    /\ hooksRun' = hooksRun + 1
    /\ UNCHANGED <<isReact, shape, pc, isBuild, code, result, thrown,
                   watcherObject, bladeFiles, unlinked>>

\* the change handler of the watcher, r being what processCode(content, the
\* handler's Set) returned: the file is recorded and regenerateAllClasses runs
\* on the plugin's registry if (result.classesChanged), and the handler's Set is
\* handed to writeOutputFileDebounced
BladeChangeWith(r, file, content) ==
    /\ fileClassMap' = BladeRecorded(r, file, content, fileClassMap)
    /\ IF watcherObject = registryObject
       THEN /\ allClassesSet' = BladeRegistry(r, BladeRecorded(r, file, content, fileClassMap))
            /\ detachedSet' = detachedSet
       ELSE /\ allClassesSet' =
                  IF r.classesChanged
                  THEN regenerateAllClasses(BladeRecorded(r, file, content, fileClassMap), 0).allClassesSet
                  ELSE allClassesSet
            /\ detachedSet' = r.currentGlobalClasses
    /\ generatedClassesSet' = r.fileSpecificClasses
    /\ modifierDerivedClassesSet' = r.modifierDerivedClassesSet
    /\ classesChanged' = r.classesChanged
    /\ writeScheduled' = r.classesChanged

\* a Blade file is written with some content and the watcher reports the change
BladeChange ==
    /\ pc = "plugin"
    /\ hooksRun < MaxHooks
    /\ watcherObject # -1
    /\ \E file \in BladeIds, content \in BladeTexts :
          /\ bladeFiles' = [bladeFiles EXCEPT ![file] = content]
          /\ code' = content
          /\ call' = [hook |-> "bladeChange", id |-> file, hit |-> FALSE, threw |-> FALSE]
          /\ BladeChangeWith(processCode(content,
                                 IF watcherObject = registryObject THEN allClassesSet
                                 ELSE detachedSet),
                             file, content)
    /\ registryBefore' = allClassesSet
    /\ hooksRun' = hooksRun + 1
    /\ UNCHANGED <<isReact, shape, pc, isBuild, result, thrown, transformCache,
                   initialScanComplete, lastWrittenClassCount, lastTransformed,
                   registryObject, watcherObject, unlinked>>

\* transform for a file of the module graph
TransformGraph == TransformOf(GraphIds, GraphTexts)

NextBlade ==
    \/ ConfigureServer
    \/ BuildStartBlade
    \/ BladeChange
    \/ TransformGraph

SpecBlade == InitBlade /\ [][NextBlade]_vars

(***************************************************************************)
(* The watcher-based version of the plugin (src/src/index.ts) and the core *)
(* it was written against (the second copy in core.ts, 309-506).  Its      *)
(* transform never rebuilds the registry; the file watcher's unlink        *)
(* handler takes a deleted file's classes out of it.                       *)
(***************************************************************************)

WatcherIds == FileIds
WatcherTexts == {T_mixed, T_other, T_static}

\* classes.split(" ").forEach(cls => { if (cls.trim()) add(cls.trim()) })
\* (core.ts 355-359)
RECURSIVE TrimmedTokens(_)
TrimmedTokens(segments) ==
    IF Len(segments) = 0 THEN {}
    ELSE (IF Trim(Head(segments)) # <<>> THEN {Trim(Head(segments))} ELSE {})
         \cup TrimmedTokens(Tail(segments))

\* the first loop of the four-parameter extractClasses (core.ts 351-361), from
\* index i on: classMatch[1] || classMatch[2], skipped when empty
RECURSIVE WatcherExtractBaseFrom(_, _, _)
WatcherExtractBaseFrom(s, i, react) ==
    LET at == {j \in i..Len(s) : ClassMatchAt(s, j, react).matched}
    IN  IF at = {} THEN {}
        ELSE LET m == ClassMatchAt(s, Least(at), react)
             IN  (IF m.val # <<>> THEN TrimmedTokens(Split(m.val, " ")) ELSE {})
                 \cup WatcherExtractBaseFrom(s, m.end + 1, react)

\* the tokens the second loop adds for one match (core.ts 366-381): the full chain
\* and, for a chain of several parts, every non-empty part, with no depth limit
WatcherModifierTokens(m) ==
    IF m.modifiers # <<>> /\ m.classes # <<>>
    THEN LET arr == ModifiedClasses(m.modifiers, Split(m.classes, " "))
         IN  {arr[k] : k \in 1..Len(arr)}
    ELSE {}

\* the second loop of extractClasses (core.ts 364-382), from index i on
RECURSIVE WatcherExtractModifiersFrom(_, _, _)
WatcherExtractModifiersFrom(s, i, react) ==
    LET at == {j \in i..Len(s) : ModifierMatchAt(s, j, react).matched}
    IN  IF at = {} THEN {}
        ELSE LET m == ModifierMatchAt(s, Least(at), react)
             IN  WatcherModifierTokens(m)
                 \cup WatcherExtractModifiersFrom(s, m.end + 1, react)

\* extractClasses(code, generatedClassesSet, classRegex, classModifierRegex) on a
\* cleared set (core.ts 343-383)
WatcherExtractClasses(s, react) ==
    WatcherExtractBaseFrom(s, 1, react) \cup WatcherExtractModifiersFrom(s, 1, react)

\* multipleClassRegex of core.ts 447-450, the part (?:\s*(attr))* after an
\* attribute ending at e: the whitespace between two attributes may be empty
RECURSIVE WatcherRunExtend(_, _, _)
WatcherRunExtend(s, e, attrName) ==
    LET e2 == AttrEnd(s, SkipWhile(s, e + 1, WhiteSpace), attrName)
    IN  IF e2 = 0 THEN e ELSE WatcherRunExtend(s, e2, attrName)

\* multipleClassRegex tried at index i: the index of the last character, or 0
WatcherRunAt(s, i, attrName) ==
    LET e == AttrEnd(s, i, attrName)
    IN  IF e = 0 THEN 0 ELSE WatcherRunExtend(s, e, attrName)

\* allClasses: the trimmed non-blank values of the quoted attributes (core.ts 455-467)
RECURSIVE QuotedClasses(_)
QuotedClasses(attrs) ==
    IF Len(attrs) = 0 THEN <<>>
    ELSE (IF Head(attrs).quoted /\ Trim(Head(attrs).val) # <<>>
          THEN <<Trim(Head(attrs).val)>>
          ELSE <<>>)
         \o QuotedClasses(Tail(attrs))

\* the replace callback of core.ts 452-505: the values forEach returns for braced
\* attributes are dropped, so a run with a braced attribute comes back unchanged
WatcherMergeRun(match, attrName) ==
    LET attrs == AttrMatches(match, 1, attrName)
        allClasses == QuotedClasses(attrs)
        jsxMatches == \E k \in 1..Len(attrs) : ~attrs[k].quoted
    IN  IF Len(allClasses) > 0 /\ ~jsxMatches
        THEN attrName \o <<"=", "\"">> \o Join(allClasses, <<" ">>) \o <<"\"">>
        ELSE match

\* code.replace(multipleClassRegex, callback) from index i on (core.ts 452)
RECURSIVE WatcherMergeFrom(_, _, _)
WatcherMergeFrom(s, i, attrName) ==
    LET at == {j \in i..Len(s) : WatcherRunAt(s, j, attrName) # 0}
    IN  IF at = {} THEN SubSeq(s, i, Len(s))
        ELSE LET j == Least(at)
                 e == WatcherRunAt(s, j, attrName)
             IN  SubSeq(s, i, j - 1) \o WatcherMergeRun(SubSeq(s, j, e), attrName)
                 \o WatcherMergeFrom(s, e + 1, attrName)

\* what processCode (index.ts 624-677) takes from the core for one text and one
\* language: the set extractClasses fills, what transformClassModifiers adds to
\* it, and the merged text
WatcherPass(c, react) ==
    LET name == IF react THEN S_className ELSE S_class
        t == transformClassModifiers(c, react, name)
    IN  [extracted |-> WatcherExtractClasses(c, react),
         generated |-> t.generated,
         finalTransformedCode |-> WatcherMergeFrom(t.text, 1, name)]

WatcherPassOf == [react \in BOOLEAN |-> [c \in WatcherTexts |-> WatcherPass(c, react)]]

\* className.includes(":") (index.ts 642)
Includes(cls, c) == \E k \in 1..Len(cls) : cls[k] = c

\* processCode(code, currentGlobalClasses) of index.ts 624-677, p being the core's
\* results for the code: only tokens holding a colon go to the registry, and the
\* reused set, returned as fileSpecificClasses, ends with the transform's tokens too
WatcherProcessCodeResult(p, currentGlobalClasses) ==
    LET wanted == {cls \in p.extracted : Includes(cls, ":")}
    IN  [transformedCode |-> p.finalTransformedCode,
         classesChanged |-> wanted \ currentGlobalClasses # {},
         fileSpecificClasses |-> p.extracted \cup p.generated,
         allClassesSet |-> currentGlobalClasses \cup wanted]

WatcherProcessCode(c, currentGlobalClasses) ==
    WatcherProcessCodeResult(WatcherPassOf[isReact][c], currentGlobalClasses)

\* the state after useClassy() of index.ts 304-330, in either language and mode
InitWatcher ==
    /\ isReact \in BOOLEAN
    /\ isBuild \in BOOLEAN
    /\ code = <<>>
    /\ result = <<>>
    /\ generatedClassesSet = {}
    /\ modifierDerivedClassesSet = {}
    /\ shape = [kind |-> "watcher"]
    /\ pc = "plugin"
    /\ allClassesSet = {}
    /\ fileClassMap = <<>>
    /\ transformCache = <<>>
    /\ initialScanComplete = FALSE
    /\ lastWrittenClassCount = -1
    /\ writeScheduled = FALSE
    /\ call = NoCall
    /\ hooksRun = 0
    /\ classesChanged = FALSE
    /\ registryBefore = {}
    /\ lastTransformed = <<>>
    /\ thrown = FALSE
    /\ NoBlade
    /\ unlinked = {}

\* transform, the cache holding the key (index.ts 373-378)
WatcherTransformCached(id, cacheKey) ==
    /\ MapHas(transformCache, cacheKey)
    /\ result' = transformCache[cacheKey]
    /\ call' = [hook |-> "transform", id |-> id, hit |-> TRUE, threw |-> FALSE]
    /\ classesChanged' = FALSE
    /\ writeScheduled' = FALSE
    /\ UNCHANGED <<generatedClassesSet, allClassesSet, fileClassMap, transformCache,
                   initialScanComplete>>

\* transform, the key not in cache, which is the map the lookup is made in
\* (index.ts 380-418): the registry is never rebuilt
WatcherTransformProcessed(id, cacheKey, r, cache) ==
    /\ ~MapHas(cache, cacheKey)
    /\ generatedClassesSet' = r.fileSpecificClasses
    /\ allClassesSet' = r.allClassesSet
    /\ fileClassMap' = MapSet(fileClassMap, id, r.fileSpecificClasses)
    /\ transformCache' = MapSet(cache, cacheKey, r.transformedCode)
    /\ writeScheduled' = (~isBuild /\ r.classesChanged)
    /\ classesChanged' = r.classesChanged
    /\ initialScanComplete' = TRUE
    /\ result' = r.transformedCode

\* the transform hook (index.ts 368-419) called by the bundler
WatcherTransformWith(id, cacheKey, r) ==
    \/ WatcherTransformCached(id, cacheKey)
    \/ /\ WatcherTransformProcessed(id, cacheKey, r, transformCache)
       /\ call' = [hook |-> "transform", id |-> id, hit |-> FALSE, threw |-> FALSE]

WatcherTransform ==
    /\ pc = "plugin"
    /\ hooksRun < MaxHooks
    /\ \E id \in WatcherIds, c \in WatcherTexts :
          /\ code' = c
          /\ lastTransformed' = MapSet(lastTransformed, id, c)
          /\ WatcherTransformWith(id, CacheKeyOf[id][c], WatcherProcessCode(c, allClassesSet))
    /\ registryBefore' = allClassesSet
    /\ hooksRun' = hooksRun + 1
    /\ UNCHANGED <<isReact, shape, pc, isBuild, lastWrittenClassCount,
                   modifierDerivedClassesSet, thrown, unlinked>>
    /\ UNCHANGED bladeVars

\* a map without the key k: Map.delete(k)
MapDelete(m, k) == [j \in DOMAIN m \ {k} |-> m[j]]

\* processChange for a file that exists (index.ts 443-456): the key of the
\* file's content is taken out of the cache, then the server runs transform on it
WatcherChangeWith(id, cacheKey, r) ==
    /\ WatcherTransformProcessed(id, cacheKey, r, MapDelete(transformCache, cacheKey))
    /\ call' = [hook |-> "change", id |-> id, hit |-> FALSE, threw |-> FALSE]

\* processChange for a file that is gone (index.ts 457-469): a write, no transform
WatcherChangeMissing(id) ==
    /\ writeScheduled' = TRUE
    /\ classesChanged' = FALSE
    /\ call' = [hook |-> "change", id |-> id, hit |-> FALSE, threw |-> FALSE]
    /\ UNCHANGED <<code, result, generatedClassesSet, allClassesSet, fileClassMap,
                   transformCache, initialScanComplete, lastTransformed>>

\* the watcher's change and add handlers (index.ts 443-485); the server is running
WatcherChange ==
    /\ pc = "plugin"
    /\ ~isBuild
    /\ hooksRun < MaxHooks
    /\ \E id \in WatcherIds :
          \/ \E c \in WatcherTexts :
                /\ code' = c
                /\ lastTransformed' = MapSet(lastTransformed, id, c)
                /\ WatcherChangeWith(id, CacheKeyOf[id][c],
                                     WatcherProcessCode(c, allClassesSet))
          \/ WatcherChangeMissing(id)
    /\ registryBefore' = allClassesSet
    /\ hooksRun' = hooksRun + 1
    /\ UNCHANGED <<isReact, shape, pc, isBuild, lastWrittenClassCount,
                   modifierDerivedClassesSet, thrown, unlinked>>
    /\ UNCHANGED bladeVars

\* the watcher's unlink handler (index.ts 489-539) for the file id, classesToRemove
\* being what fileClassMap holds for it ({} when it holds nothing): every one of
\* them is deleted from the registry, whichever other file uses it
UnlinkWith(id, classesToRemove) ==
    /\ allClassesSet' = allClassesSet \ classesToRemove
    /\ fileClassMap' = MapDelete(fileClassMap, id)
    /\ writeScheduled' = (classesToRemove \cap allClassesSet # {})
    /\ classesChanged' = (classesToRemove \cap allClassesSet # {})
    /\ unlinked' = classesToRemove
    /\ lastTransformed' = MapDelete(lastTransformed, id)
    /\ call' = [hook |-> "unlink", id |-> id, hit |-> FALSE, threw |-> FALSE]

Unlink ==
    /\ pc = "plugin"
    /\ ~isBuild
    /\ hooksRun < MaxHooks
    /\ \E id \in WatcherIds :
          UnlinkWith(id, IF MapHas(fileClassMap, id) THEN fileClassMap[id] ELSE {})
    /\ registryBefore' = allClassesSet
    /\ hooksRun' = hooksRun + 1
    /\ UNCHANGED <<isReact, shape, pc, isBuild, lastWrittenClassCount, code, result,
                   generatedClassesSet, modifierDerivedClassesSet, transformCache,
                   initialScanComplete, thrown>>
    /\ UNCHANGED bladeVars

\* buildStart (index.ts 420-428)
WatcherBuildStart ==
    /\ pc = "plugin"
    /\ hooksRun < MaxHooks
    /\ allClassesSet' = {}
    /\ transformCache' = <<>>
    /\ fileClassMap' = <<>>
    /\ lastWrittenClassCount' = -1
    /\ initialScanComplete' = FALSE
    /\ writeScheduled' = FALSE
    /\ classesChanged' = FALSE
    /\ call' = [hook |-> "buildStart", id |-> <<>>, hit |-> FALSE, threw |-> FALSE]
    /\ registryBefore' = allClassesSet
    /\ lastTransformed' = <<>>
    /\ hooksRun' = hooksRun + 1
    /\ UNCHANGED <<isReact, shape, pc, isBuild, code, result, generatedClassesSet,
                   modifierDerivedClassesSet, thrown, unlinked>>
    /\ UNCHANGED bladeVars

NextWatcher ==
    \/ WatcherTransform
    \/ WatcherChange
    \/ Unlink
    \/ WatcherBuildStart

SpecWatcher == InitWatcher /\ [][NextWatcher]_vars

(***************************************************************************)
(* What the properties say of a shape, in the words of the specification   *)
(***************************************************************************)

\* the modifier pattern of the language matches the attribute name of the shape:
\* class: always, className: with the React pattern only
NameIsModifier(sh) == sh.name = S_class \/ isReact

\* a modifier attribute whose chain has n >= 1 parts, none of them empty
WellFormedChain(sh) ==
    /\ sh.kind = "modifier"
    /\ sh.parts # NoParts
    /\ \A k \in 1..Len(sh.parts) : sh.parts[k] # <<>>

\* a modifier attribute whose chain is empty or blank
BlankChain(sh) == sh.kind = "modifier" /\ Trim(sh.chain) = <<>>

\* a chain with an empty part next to a non-empty one, or made of colons only
MalformedChain(sh) ==
    /\ sh.kind = "modifier"
    /\ sh.chain # <<>>
    /\ \E k \in 1..Len(sh.parts) : sh.parts[k] = <<>>

\* for the value token v: the full-chain token, then (n > 1) one token per part
TokensOfValue(parts, v) ==
    <<Join(parts, <<":">>) \o <<":">> \o v>>
    \o (IF Len(parts) > 1 THEN [k \in 1..Len(parts) |-> parts[k] \o <<":">> \o v] ELSE <<>>)

RECURSIVE TokensOfValues(_, _)
TokensOfValues(parts, vs) ==
    IF Len(vs) = 0 THEN <<>>
    ELSE TokensOfValue(parts, Head(vs)) \o TokensOfValues(parts, Tail(vs))

ExpectedTokens(sh) == TokensOfValues(sh.parts, sh.tokens)

Range(f) == {f[k] : k \in DOMAIN f}

\* the text with the modifier attribute replaced by attribute
WithAttribute(sh, attribute) == TagOpen \o LeadAttr(sh) \o attribute \o TagClose

QuotedAttribute(name, val) == name \o <<"=", "\"">> \o val \o <<"\"">>
BracedAttribute(name, val) == name \o <<"=", "{">> \o val \o <<"}">>

\* transformClassModifiers has just run on the text as drawn
Transformed == pc = "transformed" /\ code = Render(shape)
\* ... with an output set that was empty (not after extractClasses)
TransformedAlone == Transformed /\ modifierDerivedClassesSet = {}

\* mergeClassAttributes has just run on the text as drawn
Merged == pc = "merged" /\ code = Render(shape)

\* the attributes of the shape are one run: every name is one that the pattern
\* of attrName matches, and white space separates them
IsRun(sh) ==
    /\ sh.kind = "run"
    /\ sh.sep # <<>>
    /\ \A k \in 1..Len(sh.attrs) : sh.attrs[k].name = S_class \/ isReact

IsTemplateLiteral(e) == StartsWith(e, BT) /\ EndsWith(e, BT)

\* the static strings of a run, in order: the non-blank quoted values and the
\* non-blank contents of template literals, trimmed
RECURSIVE StaticsOf(_)
StaticsOf(attrs) ==
    IF Len(attrs) = 0 THEN <<>>
    ELSE LET a == Head(attrs)
             t == Trim(a.val)
             inner == IF IsTemplateLiteral(t) THEN Trim(SubSeq(t, 2, Len(t) - 1)) ELSE <<>>
         IN  (IF a.quoted /\ t # <<>> THEN <<t>>
              ELSE IF (~a.quoted) /\ inner # <<>> THEN <<inner>>
              ELSE <<>>)
             \o StaticsOf(Tail(attrs))

StaticText(sh) == Join(StaticsOf(sh.attrs), <<" ">>)

\* the dynamic expressions of a run, in order: the brace values that are neither
\* blank nor template literals, trimmed
RECURSIVE DynamicsOf(_)
DynamicsOf(attrs) ==
    IF Len(attrs) = 0 THEN <<>>
    ELSE LET a == Head(attrs)
             t == Trim(a.val)
         IN  (IF (~a.quoted) /\ t # <<>> /\ ~IsTemplateLiteral(t) THEN <<t>> ELSE <<>>)
             \o DynamicsOf(Tail(attrs))

\* the expression the retention policy keeps (<<>>: none): the last
\* function-call-shaped one if there is one, otherwise the first
Retained(sh) ==
    LET d == DynamicsOf(sh.attrs)
        calls == {k \in 1..Len(d) : IsFunctionCallShaped(d[k])}
    IN  IF Len(d) = 0 THEN <<>>
        ELSE IF calls # {} THEN d[CHOOSE k \in calls : \A j \in calls : j <= k]
        ELSE d[1]

AllQuoted(sh) == \A k \in 1..Len(sh.attrs) : sh.attrs[k].quoted

(***************************************************************************)
(* C1 - C10                                                                *)
(***************************************************************************)

\* C1: mergeClassAttributes is idempotent: run on its own output, it returns that
\* output unchanged.
C1_MergeIdempotent == pc = "remerged" => result = code

\* C2 as stated: a modifier attribute with a chain of n >= 1 non-empty parts is
\* replaced by one attribute holding, per value token, the full-chain token and
\* (n > 1) one token per part, joined by single spaces, and every one of these
\* tokens is in the produced-tokens set afterwards.
C2_AllTokensInSet ==
    (Transformed /\ WellFormedChain(shape) /\ NameIsModifier(shape))
        => /\ result = WithAttribute(shape,
                           QuotedAttribute(classAttrName, Join(ExpectedTokens(shape), <<" ">>)))
           /\ Range(ExpectedTokens(shape)) \subseteq generatedClassesSet

\* C2 amended: ... and every one of these tokens that ends neither with a colon
\* nor with a single quote is in the produced-tokens set afterwards.
C2_TokensWrittenAndRegistered ==
    (Transformed /\ WellFormedChain(shape) /\ NameIsModifier(shape))
        => /\ result = WithAttribute(shape,
                           QuotedAttribute(classAttrName, Join(ExpectedTokens(shape), <<" ">>)))
           /\ \A t \in Range(ExpectedTokens(shape)) :
                  (~EndsWith(t, ":") /\ ~EndsWith(t, "'")) => t \in generatedClassesSet

C2_Witness ==
    /\ Transformed /\ WellFormedChain(shape) /\ NameIsModifier(shape)
    /\ Len(shape.parts) > 1 /\ Len(shape.tokens) > 1
    /\ shape.parts[1] # shape.parts[2]
    /\ \E t \in Range(ExpectedTokens(shape)) : EndsWith(t, ":")

\* a text with no modifier attribute and no element with more than one class
\* attribute: a run shape of one attribute
SingleAttribute(sh) == sh.kind = "run" /\ Len(sh.attrs) = 1

Normalised(a) ==
    \/ (a.name # S_class /\ ~isReact)
    \/ /\ a.name = classAttrName
       /\ a.val # <<>>
       /\ Trim(a.val) = a.val
       /\ (a.quoted \/ ~IsTemplateLiteral(a.val))

C4_BlankChainNoOp ==
    BlankChain(shape)
        => /\ Transformed => (result = code /\ generatedClassesSet \subseteq {<<"f">>})
           /\ pc = "extracted"
                => (modifierDerivedClassesSet = {} /\ generatedClassesSet \subseteq {<<"f">>})

C4_Witness ==
    /\ BlankChain(shape) /\ NameIsModifier(shape) /\ shape.chain # <<>>
    /\ pc = "extracted" /\ shape.tokens # <<>>

\* C5: a modifier attribute whose chain has an empty part (a leading, trailing or
\* doubled colon) is left unrewritten by transformClassModifiers, and nothing is
\* added to the output set.
C5_MalformedChainNoOp ==
    (TransformedAlone /\ MalformedChain(shape)) => (result = code /\ generatedClassesSet = {})

\* C6 as stated: a produced token is in the output set exactly when it neither
\* ends with ':' nor is wrapped in single quotes (starts and ends with one);
\* the rewritten attribute holds every produced token.
ProducedTokens(sh) == Range(ExpectedTokens(sh))

IsRewritten(sh) == WellFormedChain(sh) /\ NameIsModifier(sh)

C6_FilterWrapped ==
    (TransformedAlone /\ IsRewritten(shape))
        => /\ \A t \in ProducedTokens(shape) :
                  t \in generatedClassesSet
                      <=> ~(EndsWith(t, ":") \/ (StartsWith(t, "'") /\ EndsWith(t, "'")))
           /\ result = WithAttribute(shape,
                           QuotedAttribute(classAttrName, Join(ExpectedTokens(shape), <<" ">>)))

\* C6 amended: a produced token is in the output set exactly when it ends neither
\* with ':' nor with a single quote; the rewritten attribute holds every produced
\* token.
C6_FilterTrailing ==
    (TransformedAlone /\ IsRewritten(shape))
        => /\ \A t \in ProducedTokens(shape) :
                  t \in generatedClassesSet <=> ~(EndsWith(t, ":") \/ EndsWith(t, "'"))
           /\ result = WithAttribute(shape,
                           QuotedAttribute(classAttrName, Join(ExpectedTokens(shape), <<" ">>)))

C6_Witness ==
    /\ TransformedAlone /\ IsRewritten(shape)
    /\ \E t \in ProducedTokens(shape) : EndsWith(t, "'") /\ t \notin generatedClassesSet
    /\ \E t \in ProducedTokens(shape) : t \in generatedClassesSet

\* the call e = fn(args) with the template literal of s as one more argument
\* before its closing parenthesis
WithArgument(e, s) ==
    LET open == IndexFrom(e, 1, "(")
        close == LastIndexOf(e, ")")
        args == SubSeq(e, open + 1, close - 1)
    IN  SubSeq(e, 1, close - 1)
        \o (IF Trim(args) = <<>> THEN <<>> ELSE <<",", " ">>)
        \o <<BT>> \o s \o <<BT>> \o SubSeq(e, close, Len(e))

RunMerged(sh) == Merged /\ IsRun(sh)

\* C7: static text S and a retained function call fn(args) give
\* attr={fn(args, S as a template literal)}: the call with one more well-formed
\* argument, also when args is empty.
C7_CallGetsArgument ==
    (RunMerged(shape) /\ StaticText(shape) # <<>> /\ IsFunctionCallShaped(Retained(shape)))
        => result = TagOpen
                    \o BracedAttribute(classAttrName,
                                       WithArgument(Retained(shape), StaticText(shape)))
                    \o TagClose

\* C8: a run keeps at most one dynamic expression: the last function-call-shaped
\* one if there is one, otherwise the first; the output is built from it and the
\* static text alone.
C8_RetainedExpression ==
    RunMerged(shape)
        => result = TagOpen
                    \o MergeEmit([staticClasses |-> StaticsOf(shape.attrs),
                                  jsxExpr |-> Retained(shape),
                                  isFunctionCall |-> IsFunctionCallShaped(Retained(shape))],
                                 classAttrName)
                    \o TagClose

C8_Witness ==
    /\ RunMerged(shape)
    /\ Len(DynamicsOf(shape.attrs)) >= 3
    /\ IsFunctionCallShaped(Retained(shape))
    /\ Retained(shape) # DynamicsOf(shape.attrs)[1]
    /\ Retained(shape) # DynamicsOf(shape.attrs)[Len(DynamicsOf(shape.attrs))]

\* C9: static text S and a retained expression E that is not function-call-shaped
\* give attr={S ${E} as a template literal}.
C9_TemplateLiteral ==
    (/\ RunMerged(shape)
     /\ StaticText(shape) # <<>>
     /\ Retained(shape) # <<>>
     /\ ~IsFunctionCallShaped(Retained(shape)))
        => result = TagOpen
                    \o BracedAttribute(classAttrName,
                           <<BT>> \o StaticText(shape) \o <<" ", "$", "{">>
                                  \o Retained(shape) \o <<"}", BT>>)
                    \o TagClose

C9_Witness ==
    /\ RunMerged(shape)
    /\ StaticText(shape) # <<>>
    /\ Retained(shape) = <<"f", "(", "a">>

\* C10 as stated: a run of k >= 1 quoted attributes becomes exactly one attribute
\* named attrName whose value is the trimmed, non-empty values joined by single
\* spaces in their order.
C10_OneAttribute ==
    (RunMerged(shape) /\ AllQuoted(shape))
        => result = TagOpen \o QuotedAttribute(classAttrName, StaticText(shape)) \o TagClose

\* C10 amended: ... provided at least one value of the run is not blank.
C10_OneAttributeIfNotBlank ==
    (RunMerged(shape) /\ AllQuoted(shape) /\ StaticText(shape) # <<>>)
        => result = TagOpen \o QuotedAttribute(classAttrName, StaticText(shape)) \o TagClose

C10_Witness ==
    /\ RunMerged(shape) /\ AllQuoted(shape)
    /\ Len(StaticsOf(shape.attrs)) >= 3
    /\ isReact

C10_WitnessMixed ==
    /\ RunMerged(shape) /\ AllQuoted(shape) /\ isReact
    /\ \E j, k \in 1..Len(shape.attrs) :
          /\ j < k
          /\ shape.attrs[j].name = S_class /\ shape.attrs[k].name = S_className
          /\ Trim(shape.attrs[j].val) # <<>> /\ Trim(shape.attrs[k].val) # <<>>

(***************************************************************************)
(* C11 - C20                                                               *)
(***************************************************************************)

\* every value of the run is empty or white space only
AllBlank(sh) == \A k \in 1..Len(sh.attrs) : Trim(sh.attrs[k].val) = <<>>

\* the text t occurs in the text s
Occurs(s, t) == \E i \in 1..Len(s) : MatchesAt(s, i, t)

\* C11: a run whose values are all empty or white space only is replaced by the
\* empty string: the output holds no class attribute for it.
C11_BlankRunDropped ==
    (RunMerged(shape) /\ AllBlank(shape))
        => /\ result = TagOpen \o TagClose
           /\ ~Occurs(result, S_class)

C11_Witness ==
    /\ RunMerged(shape) /\ AllBlank(shape)
    /\ Len(shape.attrs) >= 2
    /\ \E k \in 1..Len(shape.attrs) : ~shape.attrs[k].quoted
    /\ \E k \in 1..Len(shape.attrs) : shape.attrs[k].quoted

\* transformClassModifiers rewrites the modifier attribute of the shape: the
\* pattern matches its name and its chain is not blank
RewrittenMatch(sh) == sh.kind = "modifier" /\ NameIsModifier(sh) /\ ~BlankChain(sh)

\* C12: the attribute written in place of a modifier attribute is named exactly
\* classAttrName, whether the original was class:chain or className:chain, and
\* the text name:chain= of the match is not in the output.
C12_StandardName ==
    (Transformed /\ RewrittenMatch(shape))
        => /\ MatchesAt(result, Len(TagOpen \o LeadAttr(shape)) + 1,
                        classAttrName \o <<"=", "\"">>)
           /\ ~Occurs(result, shape.name \o <<":">> \o shape.chain \o <<"=">>)

C12_Witness ==
    /\ Transformed /\ RewrittenMatch(shape)
    /\ shape.name # classAttrName
    /\ shape.tokens # <<>>

\* extractClasses has just run on the text as drawn
Extracted == pc = "extracted" /\ code = RenderText(shape)

\* the white-space-separated tokens of a value: its maximal runs of characters
\* that are not white space
SpecTokens(v) ==
    { SubSeq(v, i, j) : i \in 1..Len(v), j \in 1..Len(v) } \cap
    { t \in SeqsUpTo(Range(v) \ WhiteSpace, 1, Len(v)) :
        \E i \in 1..Len(v) :
            /\ i + Len(t) - 1 <= Len(v)
            /\ SubSeq(v, i, i + Len(t) - 1) = t
            /\ (i = 1 \/ v[i - 1] \in WhiteSpace)
            /\ (i + Len(t) - 1 = Len(v) \/ v[i + Len(t)] \in WhiteSpace) }

\* the white space of the value is spaces, tabs and newlines only
PlainWhiteSpace(v) == \A k \in 1..Len(v) : v[k] \notin (WhiteSpace \ {" ", "\t", "\n"})

\* the attribute of the shape has the name of the standard attribute of the
\* pattern pair: class (Vue/HTML), className (React)
NameIsStandard(sh) == sh.name = classAttrName

\* a plain quoted standard attribute
PlainStandard(sh) == sh.kind = "plain" /\ NameIsStandard(sh) /\ PlainWhiteSpace(sh.value)

\* the chains of the modifier attributes of the text that the modifier pattern
\* matches, each as its sequence of parts
ModifierChainsOf(sh) ==
    IF sh.kind = "modifier" /\ NameIsModifier(sh) THEN {sh.parts}
    ELSE IF sh.kind = "plain" /\ sh.follow = S_modifierAfter THEN {<<<<"h">>>>}
    ELSE IF sh.kind = "plain" /\ sh.follow = S_reactModifierAfter /\ isReact THEN {<<<<"h">>>>}
    ELSE {}

\* t is built from a modifier attribute: a chain, or one part of it, then a
\* colon, then a token
BuiltFromModifier(sh, t) ==
    \E parts \in ModifierChainsOf(sh) :
        \E prefix \in {Join(parts, <<":">>)} \cup Range(parts) :
            /\ Len(t) > Len(prefix) + 1
            /\ SubSeq(t, 1, Len(prefix) + 1) = prefix \o <<":">>

\* the tokens that occur only inside the plain attribute of the text
PlainOnly(sh) ==
    IF PlainStandard(sh) THEN {t \in SpecTokens(sh.value) : ~BuiltFromModifier(sh, t)}
    ELSE {}

Min(a, b) == IF a < b THEN a ELSE b

\* the tokens the depth bound allows for the value token v of a chain
BoundedTokens(parts, v) ==
    {Join(parts, <<":">>) \o <<":">> \o v}
    \cup {parts[j] \o <<":">> \o v : j \in 1..Min(Len(parts), MAX_MODIFIER_DEPTH)}

\* C14: for a chain of n > 1 parts extractClasses adds, per value token, the
\* full-chain token and a single-part token for the first min(n, 4) parts only:
\* at most 5 tokens per value token.
C14_DepthBound ==
    (/\ Extracted /\ shape.kind = "modifier" /\ NameIsModifier(shape)
     /\ Len(shape.parts) > 1 /\ PlainWhiteSpace(shape.value))
        => /\ modifierDerivedClassesSet
                = UNION {BoundedTokens(shape.parts, v) : v \in SpecTokens(shape.value)}
           /\ Cardinality(modifierDerivedClassesSet)
                <= (MAX_MODIFIER_DEPTH + 1) * Cardinality(SpecTokens(shape.value))
           /\ \A j \in (MAX_MODIFIER_DEPTH + 1)..Len(shape.parts) :
                  \A v \in SpecTokens(shape.value) :
                      (\A k \in 1..MAX_MODIFIER_DEPTH : shape.parts[k] # shape.parts[j])
                          => shape.parts[j] \o <<":">> \o v \notin generatedClassesSet

C14_Witness ==
    /\ Extracted /\ shape.kind = "modifier" /\ NameIsModifier(shape)
    /\ Len(shape.parts) > MAX_MODIFIER_DEPTH + 1
    /\ Cardinality(SpecTokens(shape.value)) = 2
    /\ Cardinality(modifierDerivedClassesSet) = 2 * (MAX_MODIFIER_DEPTH + 1)

\* C15: no token of either set is empty or holds a white space character: runs
\* of white space separate, white space at the ends is ignored, and a plain
\* value yields exactly its white-space-separated tokens.
C15_NoWhiteSpaceInTokens ==
    Extracted
        => /\ \A t \in generatedClassesSet \cup modifierDerivedClassesSet :
                  t # <<>> /\ \A k \in 1..Len(t) : t[k] \notin WhiteSpace
           /\ (shape.kind = "plain" /\ NameIsStandard(shape) /\ shape.follow = <<>>)
                  => generatedClassesSet = SpecTokens(shape.value)

\* the tokens of PriorSets that no text produces
StaleOnly == {<<"z">>, <<"h", ":", "z">>}

\* C16: extractClasses clears both sets first: afterwards each holds exactly the
\* tokens of the text, and what it held before is gone unless the text produces
\* it again.
C16_SetsCleared ==
    Extracted
        => /\ generatedClassesSet = extractClasses(code, isReact).allFileClasses
           /\ modifierDerivedClassesSet = extractClasses(code, isReact).modifierDerivedClasses
           /\ (generatedClassesSet \cup modifierDerivedClassesSet) \cap StaleOnly = {}
           /\ \A t \in generatedClassesSet : \A k \in 1..Len(t) : Occurs(code, <<t[k]>>)

C16_Witness ==
    /\ Extracted
    /\ <<"a">> \in generatedClassesSet
    /\ <<"s", ":", "a">> \notin generatedClassesSet
    /\ modifierDerivedClassesSet # {}

LookaheadText == IF isReact THEN <<":">> ELSE <<":">> \o S_class

BracedClassName(sh) == isReact /\ sh.kind = "braced" /\ sh.name = S_className

\* C18: a template literal with static text before an interpolation gives
\* All-Tokens every token of that static text; an expression that is not a
\* template literal gives no token.
C18_StaticPrefixExtracted ==
    (Extracted /\ BracedClassName(shape))
        => /\ (shape.template /\ shape.hasInner)
                  => SpecTokens(shape.static) \subseteq generatedClassesSet
           /\ (~shape.template) => generatedClassesSet = {}

ModifierDerivedSetOf(c) == CorePassOf[isReact][c].modifierDerivedClasses

\* C20: after any sequence of transform calls since the last buildStart, every
\* token in the global registry (allClassesSet) belongs to the Modifier-Derived
\* Set of some content a file can have; a token that occurs only in plain static
\* class attributes (f, or the hand-written d:t) is never in the registry.
C20_RegistryOnlyModifierDerived ==
    \A token \in allClassesSet : \E c \in PluginTexts : token \in ModifierDerivedSetOf(c)

(***************************************************************************)
(* C21 - C27: the plugin's registry, cache and error handling              *)
(***************************************************************************)

\* the last hook was transform
LastWasTransform == call.hook = "transform"

\* the tokens of the files other than the one of the last call, as fileClassMap
\* tracks them (a transform call leaves their entries as they were)
TrackedByOthers == UNION {fileClassMap[f] : f \in DOMAIN fileClassMap \ {call.id}}

C22_ProcessCodeIdempotent ==
    [][ hooksRun >= 1 =>
          /\ allClassesSet' = allClassesSet
          /\ ~classesChanged'
          /\ result' = result ]_vars

\* a second run on a text whose modifier-derived tokens the first run added
C22_Witness ==
    /\ pc = "processCode"
    /\ hooksRun = 2
    /\ modifierDerivedClassesSet # {}
    /\ modifierDerivedClassesSet \subseteq allClassesSet
    /\ result # code

\* the last hook was a transform call that processed its file: not served from
\* the cache, and processCode returned
LastProcessed == LastWasTransform /\ ~call.hit /\ ~call.threw

ProcessedCodeOf(c) == CorePassOf[isReact][c].finalTransformedCode
ProcessedClassesOf(c) == CorePassOf[isReact][c].allFileClasses \cup CorePassOf[isReact][c].generated

\* C24: if processCode throws, transform returns null and records no entry in
\* transformCache or fileClassMap; a transform call after a throw that processes
\* its file returns the transformed code and records the file as usual.
C24_ThrowCaught ==
    [][ /\ call'.threw =>
              /\ result' = Null
              /\ fileClassMap' = fileClassMap
              /\ transformCache' = transformCache
        /\ (thrown /\ call'.hook = "transform" /\ ~call'.hit /\ ~call'.threw) =>
              /\ result' = ProcessedCodeOf(code')
              /\ fileClassMap'[call'.id] = ProcessedClassesOf(code')
              /\ transformCache'[CacheKeyOf[call'.id][code']] = result' ]_vars

\* both files were passed to transform; for one processCode threw and it has no
\* entry, the other was processed after that and has its entry
C24_Witness ==
    /\ thrown
    /\ LastProcessed
    /\ DOMAIN lastTransformed = FileIds
    /\ DOMAIN fileClassMap = {call.id}
    /\ result = ProcessedCodeOf(code)
    /\ result # code

\* C25: a transform call served from the cache returns the transformed code that
\* processing its own (id, code) would produce.
C25_CacheTransparent ==
    (LastWasTransform /\ call.hit) => result = ProcessedCodeOf(code)

\* C26: after any sequence of transform calls since the last buildStart (none of
\* which threw), the registry contains every modifier-derived token of the
\* content most recently passed to transform for each file.
C26_RegistryComplete ==
    ~thrown =>
        \A f \in DOMAIN lastTransformed :
            ModifierDerivedSetOf(lastTransformed[f]) \subseteq allClassesSet

\* a token that ends with ":" or with a single quote
EndsWithColonOrQuote(token) ==
    token # <<>> /\ token[Len(token)] \in {":", "'"}

\* C27: no token that ends with ":" or with a single quote is in the registry
\* after a transform call.
C27_NoExcludedTokenInRegistry ==
    LastWasTransform => \A token \in allClassesSet : ~EndsWithColonOrQuote(token)

(***************************************************************************)
(* C28, C29: Blade files                                                   *)
(***************************************************************************)

\* C28: whenever the Blade change handler has run, the Set it was given (which it
\* updates and hands to the artifact writer) is the Set object allClassesSet
\* refers to, the one transform and regenerateAllClasses use.
C28_HandlerUsesRegistry ==
    call.hook = "bladeChange" => watcherObject = registryObject

\* a scan has run: by configureServer (the handler is installed) or by buildStart
Scanned == watcherObject # -1 \/ registryObject > 0

\* C29: after scanBladeFiles and any Blade change events and transform calls, the
\* registry contains every modifier-derived token of the current content of
\* every Blade file.
C29_BladeTokensInRegistry ==
    Scanned => \A file \in BladeIds : ModifierClassesOf(bladeFiles[file]) \subseteq allClassesSet

\* C30: in the watcher-based plugin, after an unlink event for a file F the
\* registry no longer holds a token that only F contributed, and it still holds
\* every token it held before that a file still tracked in fileClassMap
\* contributes: a token F shares with a remaining file is not removed.
C30_UnlinkKeepsSharedTokens ==
    call.hook = "unlink" =>
        /\ (unlinked \ TrackedByOthers) \cap allClassesSet = {}
        /\ (registryBefore \cap TrackedByOthers) \subseteq allClassesSet

====
